---- MODULE Spec2Model ----
(***************************************************************************)
(* go-cuesheet: the CUE sheet reader (ReadFile / readTracks / readTrack),  *)
(* the writer (WriteFile), the field reader (ReadString, ReadUint,         *)
(* ReadFrame), the formatters (FormatString, FormatFrame,                  *)
(* FormatTrackNumber) and the validator (Validate).                        *)
(*                                                                         *)
(* A Go string is a sequence of one-character strings.  Go offsets are     *)
(* 0-based and half-open; s[i] of the source is s[i+1] here and the Go     *)
(* slice s[a:b] is SubSeq(s, a+1, b).                                      *)
(***************************************************************************)
EXTENDS Integers, Sequences, FiniteSets, TLC

VARIABLES
    pc,        \* position of the running call: which loop reads the next line
    arg,       \* argument of the call under way (a frame, a number, a text, a sheet)
    ret,       \* what the last call returned
    input,     \* the bytes behind the io.Reader given to ReadFile
    rdpos,     \* how many of them the io.Reader has handed out
    bufmem,    \* backing array of bufio.Reader.buf (shared by every copy of the struct)
    b,         \* the bufio.Reader struct value: r, w, err
    cuesheet,  \* ReadFile's cuesheet
    frame_,    \* locals of the open FILE / TRACK scopes: fname, ftype, tracks, track
    out,       \* bytes WriteFile has written
    fs         \* the files normalize-cue works on: the CUE file, its .bak, the output file

vars == <<pc, arg, ret, input, rdpos, bufmem, b, cuesheet, frame_, out, fs>>

----------------------------------------------------------------------------
(* Characters and text                                                     *)

TAB == "\t"
LF  == "\n"
CR  == "\r"
SP  == " "
DQ  == "\""
SQ  == "'"
BSL == "\\"

delims == {TAB, LF, CR, SP}
eol == <<LF>>
framesPerSecond == 75

Digits == {"0", "1", "2", "3", "4", "5", "6", "7", "8", "9"}
DigitSeq == <<"0", "1", "2", "3", "4", "5", "6", "7", "8", "9">>
DigitVal(c) == (CHOOSE i \in 1..10 : DigitSeq[i] = c) - 1

UpperLetters == {"A", "B", "C", "D", "E", "F", "G", "H", "I", "J", "K", "L", "M",
                 "N", "O", "P", "Q", "R", "S", "T", "U", "V", "W", "X", "Y", "Z"}
LowerLetters == {"a", "b", "c", "d", "e", "f", "g", "h", "i", "j", "k", "l", "m",
                 "n", "o", "p", "q", "r", "s", "t", "u", "v", "w", "x", "y", "z"}

Min(a, b_) == IF a < b_ THEN a ELSE b_
Max(a, b_) == IF a > b_ THEN a ELSE b_

\* s[a:] of the source
From(s, a) == SubSeq(s, a + 1, Len(s))

RECURSIVE Concat(_)
Concat(ss) == IF ss = <<>> THEN <<>> ELSE Head(ss) \o Concat(Tail(ss))

\* strings.Repeat
RECURSIVE Repeat(_, _)
Repeat(s, n) == IF n <= 0 THEN <<>> ELSE s \o Repeat(s, n - 1)

\* strings.TrimLeft(s, cutset)
RECURSIVE TrimLeft(_, _)
TrimLeft(s, cutset) ==
    IF s # <<>> /\ Head(s) \in cutset THEN TrimLeft(Tail(s), cutset) ELSE s

\* strings.TrimRight(s, cutset)
RECURSIVE TrimRight(_, _)
TrimRight(s, cutset) ==
    IF s # <<>> /\ s[Len(s)] \in cutset
    THEN TrimRight(SubSeq(s, 1, Len(s) - 1), cutset)
    ELSE s

\* strings.Trim(s, cutset)
Trim(s, cutset) == TrimRight(TrimLeft(s, cutset), cutset)

\* strings.HasPrefix
HasPrefix(s, p) == Len(s) >= Len(p) /\ SubSeq(s, 1, Len(p)) = p

\* strings.ContainsAny
ContainsAny(s, chars) == \E i \in 1..Len(s) : s[i] \in chars

\* strings.Split(s, sep) for a one-character sep
RECURSIVE Split(_, _)
SplitAt(s, sep, i) == <<SubSeq(s, 1, i - 1)>> \o Split(SubSeq(s, i + 1, Len(s)), sep)
Split(s, sep) ==
    IF \A i \in 1..Len(s) : s[i] # sep
    THEN <<s>>
    ELSE SplitAt(s, sep, CHOOSE k \in 1..Len(s) :
                             s[k] = sep /\ \A j \in 1..(k - 1) : s[j] # sep)

----------------------------------------------------------------------------
(* Field reader                                                            *)
(* A value used more than once is passed on as the parameter of the        *)
(* operator that continues the function, so that each call is evaluated    *)
(* once; the names say which part of the function an operator continues.   *)

isQuoted(s) == s # <<>> /\ (s[1] = DQ \/ s[1] = SQ)

\* quote(s, quote): the loop; the quote character and the backslash get a backslash
RECURSIVE quoteBody(_, _)
quoteBody(s, q) ==
    IF s = <<>> THEN <<>>
    ELSE (IF Head(s) = q \/ Head(s) = BSL THEN <<BSL, Head(s)>> ELSE <<Head(s)>>)
         \o quoteBody(Tail(s), q)

\* quote(s, quote)
quote(s, q) == <<q>> \o quoteBody(s, q) \o <<q>>

\* unquote(s): its loop; the Go index i at which it stops
RECURSIVE unquoteStop(_, _, _)
unquoteStop(s, i, q) ==
    IF i >= Len(s) THEN i
    ELSE IF s[i + 1] = q THEN i
    ELSE IF s[i + 1] = BSL THEN unquoteStop(s, i + 2, q)
    ELSE unquoteStop(s, i + 1, q)

\* unquote(s): return s[1:i]; the slice expression panics when i > len(s)
unquoteSlice(s, i) ==
    IF i > Len(s) THEN [v |-> <<>>, panic |-> TRUE]
    ELSE [v |-> SubSeq(s, 2, i), panic |-> FALSE]

\* unquote(s)
unquote(s) == unquoteSlice(s, unquoteStop(s, 1, s[1]))

\* ReadString, quoted branch: *s = (*s)[len(v)+2:] panics when len(v)+2 > len(*s)
ReadStringQuoted(s, u) ==
    IF u.panic \/ Len(u.v) + 2 > Len(s)
    THEN [v |-> <<>>, s |-> s, panic |-> TRUE]
    ELSE [v |-> u.v, s |-> From(s, Len(u.v) + 2), panic |-> FALSE]

\* ReadString, bare branch: the field ends at the first space (sp = 0: there is none)
ReadStringBare(s, sp) ==
    IF sp > 0
    THEN [v |-> SubSeq(s, 1, sp - 1), s |-> From(s, sp), panic |-> FALSE]
    ELSE [v |-> s, s |-> <<>>, panic |-> FALSE]

\* position of the first c in s, 0 if there is none
IndexOf(s, c) ==
    IF \E i \in 1..Len(s) : s[i] = c
    THEN CHOOSE k \in 1..Len(s) : s[k] = c /\ \A j \in 1..(k - 1) : s[j] # c
    ELSE 0

\* ReadString after strings.TrimLeft
ReadStringTrimmed(s) ==
    IF isQuoted(s) THEN ReadStringQuoted(s, unquote(s))
    ELSE ReadStringBare(s, IndexOf(s, SP))

\* ReadString(s *string): the field v, the cursor s after it, and whether a slice
\* expression went out of range
ReadString(s0) ==
    CHOOSE f \in {ReadStringTrimmed(s) : s \in {TrimLeft(s0, delims)}} : TRUE

\* strconv.ParseUint(v, 10, 32) as the source calls it: maxVal = 1<<32 - 1 is
\* MaxUint32Div10 * 10 + MaxUint32Mod10
MaxUint32Div10 == 429496729
MaxUint32Mod10 == 5

RECURSIVE parseUintLoop(_, _)
parseUintLoop(v, n) ==
    IF v = <<>> THEN [n |-> n, err |-> "nil"]
    ELSE IF Head(v) \notin Digits THEN [n |-> 0, err |-> "ErrSyntax"]
    ELSE IF n > MaxUint32Div10
            \/ (n = MaxUint32Div10 /\ DigitVal(Head(v)) > MaxUint32Mod10)
    THEN [n |-> 0, err |-> "ErrRange"]
    ELSE parseUintLoop(Tail(v), n * 10 + DigitVal(Head(v)))

ParseUint(v) ==
    IF v = <<>> THEN [n |-> 0, err |-> "ErrSyntax"] ELSE parseUintLoop(v, 0)

\* ReadUint after its ReadString and ParseUint
ReadUintOf(f, p) ==
    IF f.panic THEN [n |-> 0, err |-> "nil", s |-> f.s, panic |-> TRUE]
    ELSE [n |-> p.n, err |-> p.err, s |-> f.s, panic |-> FALSE]

ReadUintField(f) == ReadUintOf(f, ParseUint(f.v))

\* ReadUint(s *string)
ReadUint(s0) == CHOOSE r \in {ReadUintField(f) : f \in {ReadString(s0)}} : TRUE

FrameResult(frame, err, f) == [frame |-> frame, err |-> err, s |-> f.s, panic |-> f.panic]

\* ReadFrame: the three ParseUint calls and the return
ReadFrameValues(f, mm, ss, ff) ==
    IF mm.err # "nil" THEN FrameResult(0, mm.err, f)
    ELSE IF ss.err # "nil" THEN FrameResult(0, ss.err, f)
    ELSE IF ff.err # "nil" THEN FrameResult(0, ff.err, f)
    ELSE FrameResult((mm.n * 60 + ss.n) * framesPerSecond + ff.n, "nil", f)

\* a variant of ReadFrameParts without the check of the number of components
ReadFramePartsNoCount(f, v) ==
    ReadFrameValues(f, ParseUint(v[1]),
                    ParseUint(IF Len(v) >= 2 THEN v[2] ELSE <<"0">>),
                    ParseUint(IF Len(v) >= 3 THEN v[3] ELSE <<"0">>))

\* ReadFrame: if len(v) != 3 { return 0, strconv.ErrSyntax }
ReadFrameParts(f, v) ==
    IF Len(v) # 3 THEN FrameResult(0, "ErrSyntax", f)
    ELSE ReadFrameValues(f, ParseUint(v[1]), ParseUint(v[2]), ParseUint(v[3]))

\* ReadFrame after its ReadString
ReadFrameField(f) ==
    IF f.panic THEN FrameResult(0, "nil", f)
    ELSE CHOOSE r \in {ReadFrameParts(f, v) : v \in {Split(f.v, ":")}} : TRUE

\* ReadFrame(s *string)
ReadFrame(s0) == CHOOSE r \in {ReadFrameField(f) : f \in {ReadString(s0)}} : TRUE

----------------------------------------------------------------------------
(* Formatters                                                              *)

\* a FormatString that quotes every text
FormatStringQuoted(s) == quote(s, DQ)

\* FormatString(s)
FormatString(s) == IF ContainsAny(s, delims) THEN quote(s, DQ) ELSE s

\* strconv.FormatUint(n, 10)
RECURSIVE FormatUint(_)
FormatUint(n) ==
    IF n < 10 THEN <<DigitSeq[n + 1]>>
    ELSE FormatUint(n \div 10) \o <<DigitSeq[(n % 10) + 1]>>

\* leftPad(s, padStr, overallLen): the last overallLen characters of the padded text
leftPadCut(retStr, overallLen) == From(retStr, Len(retStr) - overallLen)

leftPad(s, padStr, overallLen) ==
    leftPadCut(Repeat(padStr, 1 + ((overallLen - Len(padStr)) \div Len(padStr))) \o s,
               overallLen)

\* FormatTrackNumber(n)
FormatTrackNumber(n) == leftPad(FormatUint(n), <<"0">>, 2)

\* FormatFrame(frame)
FormatMSF(mm, ss, ff) ==
    leftPad(FormatUint(mm), <<"0">>, 2) \o <<":">> \o
    leftPad(FormatUint(ss), <<"0">>, 2) \o <<":">> \o
    leftPad(FormatUint(ff), <<"0">>, 2)

FormatFrame(frame) ==
    FormatMSF((frame \div framesPerSecond) \div 60,
              (frame \div framesPerSecond) % 60,
              frame % framesPerSecond)

----------------------------------------------------------------------------
(* Keywords of the format, as the source spells them                       *)

Keyword ==
    [ REM |-> <<"R", "E", "M">>,
      CATALOG |-> <<"C", "A", "T", "A", "L", "O", "G">>,
      CDTEXTFILE |-> <<"C", "D", "T", "E", "X", "T", "F", "I", "L", "E">>,
      TITLE |-> <<"T", "I", "T", "L", "E">>,
      PERFORMER |-> <<"P", "E", "R", "F", "O", "R", "M", "E", "R">>,
      SONGWRITER |-> <<"S", "O", "N", "G", "W", "R", "I", "T", "E", "R">>,
      COMPOSER |-> <<"C", "O", "M", "P", "O", "S", "E", "R">>,
      ARRANGER |-> <<"A", "R", "R", "A", "N", "G", "E", "R">>,
      MESSAGE |-> <<"M", "E", "S", "S", "A", "G", "E">>,
      GENRE |-> <<"G", "E", "N", "R", "E">>,
      DISC_ID |-> <<"D", "I", "S", "C", "_", "I", "D">>,
      UPC_EAN |-> <<"U", "P", "C", "_", "E", "A", "N">>,
      PREGAP |-> <<"P", "R", "E", "G", "A", "P">>,
      POSTGAP |-> <<"P", "O", "S", "T", "G", "A", "P">>,
      FILE |-> <<"F", "I", "L", "E">>,
      TRACK |-> <<"T", "R", "A", "C", "K">>,
      FLAGS |-> <<"F", "L", "A", "G", "S">>,
      ISRC |-> <<"I", "S", "R", "C">>,
      INDEX |-> <<"I", "N", "D", "E", "X">>,
      DCP |-> <<"D", "C", "P">>,
      FourCH |-> <<"4", "C", "H">>,
      PRE |-> <<"P", "R", "E">>,
      SCMS |-> <<"S", "C", "M", "S">> ]

Indent2 == <<SP, SP>>
Indent4 == <<SP, SP, SP, SP>>

----------------------------------------------------------------------------
(* Data model                                                              *)

None    == 0
Dcp     == 2
Four_ch == 4
Pre     == 8
Scms    == 16

\* flags & bit != 0, flags | bit, for a one-bit mask
HasFlag(flags, bit) == (flags \div bit) % 2 = 1
OrFlag(flags, bit) == IF HasFlag(flags, bit) THEN flags ELSE flags + bit

\* TrackIndex{}
TrackIndex(number, frame) == [Number |-> number, Frame |-> frame]

\* Track{}: the zero value
ZeroTrack ==
    [TrackNumber |-> 0, TrackDataType |-> <<>>, Flags |-> None, Isrc |-> <<>>,
     Title |-> <<>>, Performer |-> <<>>, SongWriter |-> <<>>, Composer |-> <<>>,
     Arranger |-> <<>>, Message |-> <<>>, Pregap |-> 0, Postgap |-> 0, Index |-> <<>>]

\* File{fname, ftype, tracks}
File(fname, ftype, tracks) == [FileName |-> fname, FileType |-> ftype, Tracks |-> tracks]

\* &Cuesheet{}: the zero value
ZeroCuesheet ==
    [Rem |-> <<>>, Catalog |-> <<>>, CdTextFile |-> <<>>, Title |-> <<>>,
     Performer |-> <<>>, SongWriter |-> <<>>, Composer |-> <<>>, Arranger |-> <<>>,
     Message |-> <<>>, Genre |-> <<>>, DiscId |-> <<>>, UpcEan |-> <<>>,
     Pregap |-> 0, Postgap |-> 0, File |-> <<>>]

----------------------------------------------------------------------------
(* bufio.Reader over the input: ReadString('\n')                           *)
(* A reader state st is [r, w, err] of the struct, buf (the backing array, *)
(* len(buf) = BufSize, standing for bufio's default size) and pos (the     *)
(* offset of the underlying io.Reader).  Copying the struct copies r, w    *)
(* and err only: buf is shared through the slice and pos belongs to the    *)
(* io.Reader behind the pointer.                                           *)

\* buf is kept up to the highest offset ever written: the bytes of the array
\* beyond it are never read.
BufSize == 128

\* bufio.Reader.fill, first half: slide the unread bytes to the front
fillSlide(st) ==
    IF st.r > 0
    THEN [st EXCEPT !.buf = [j \in 1..Len(st.buf) |->
                                IF j <= st.w - st.r THEN st.buf[st.r + j] ELSE st.buf[j]],
                    !.w = st.w - st.r,
                    !.r = 0]
    ELSE st

\* bufio.Reader.fill, second half: one Read of the io.Reader into buf[w:], which
\* hands out n bytes, or io.EOF when none is left
fillRead(st, in, n) ==
    IF Len(in) - st.pos = 0
    THEN [st EXCEPT !.err = "EOF"]
    ELSE [st EXCEPT !.buf = [j \in 1..Max(Len(st.buf), st.w + n) |->
                                IF j > st.w /\ j <= st.w + n
                                THEN in[st.pos + (j - st.w)]
                                ELSE st.buf[j]],
                    !.w = st.w + n,
                    !.pos = st.pos + n]

fillSlid(st, in) == fillRead(st, in, Min(BufSize - st.w, Len(in) - st.pos))

\* bufio.Reader.fill
\* (CHOOSE r \in {F(v) : v \in {e}} : TRUE is F(e) with e evaluated once: the
\* local variable of the source that holds e)
fill(st, in) == CHOOSE filled \in {fillSlid(slid, in) : slid \in {fillSlide(st)}} : TRUE

\* bufio.Reader.ReadSlice('\n'), s being its search start index
RECURSIVE ReadSlice(_, _, _)
ReadSliceFound(st, s, in, found) ==
    IF found # <<>>
    THEN [line |-> SubSeq(st.buf, st.r + 1, found[1] + 1), err |-> "nil",
          st |-> [st EXCEPT !.r = found[1] + 1]]
    ELSE IF st.err # "nil"
    THEN [line |-> SubSeq(st.buf, st.r + 1, st.w), err |-> st.err,
          st |-> [st EXCEPT !.r = st.w, !.err = "nil"]]
    ELSE IF st.w - st.r >= BufSize
    THEN [line |-> st.buf, err |-> "ErrBufferFull", st |-> [st EXCEPT !.r = st.w]]
    ELSE ReadSlice(fill(st, in), st.w - st.r, in)

\* bytes.IndexByte(b.buf[b.r+s:b.w], delim), as the offset in buf: <<i>>, or <<>> if none
IndexByte(st, s) ==
    IF \E i \in (st.r + s)..(st.w - 1) : st.buf[i + 1] = LF
    THEN <<CHOOSE k \in (st.r + s)..(st.w - 1) :
               st.buf[k + 1] = LF /\ \A j \in (st.r + s)..(k - 1) : st.buf[j + 1] # LF>>
    ELSE <<>>

ReadSlice(st, s, in) ==
    CHOOSE rs \in {ReadSliceFound(v, s, in, IndexByte(v, s)) : v \in {st}} : TRUE

\* bufio.Reader.ReadString('\n'): the fragments of full buffers, then the last one
RECURSIVE collectFragments(_, _, _)
collectFragmentsOf(rs, acc, in) ==
    IF rs.err = "ErrBufferFull"
    THEN collectFragments(rs.st, acc \o rs.line, in)
    ELSE [line |-> acc \o rs.line, err |-> rs.err, st |-> rs.st]

collectFragments(st, acc, in) ==
    CHOOSE rl \in {collectFragmentsOf(rs, acc, in) : rs \in {ReadSlice(st, 0, in)}} : TRUE

\* bufio.NewReader(r)
NewReader == [r |-> 0, w |-> 0, err |-> "nil"]
NewBuf == <<>>

\* (*b).ReadString('\n') in the current state
ReaderState == [r |-> b.r, w |-> b.w, err |-> b.err, buf |-> bufmem, pos |-> rdpos]
bReadString == collectFragments(ReaderState, <<>>, input)
StructOf(st) == [r |-> st.r, w |-> st.w, err |-> st.err]

----------------------------------------------------------------------------
(* The three line handlers: what one iteration of each loop does with the  *)
(* line it has read.  kind is what the loop does next.                     *)

Panic == [kind |-> "panic", err |-> "nil"]
Fail(e) == [kind |-> "error", err |-> e]

\* x.Field = ReadString(&line), for the sheet and for a track
SheetText(cs, field, f) ==
    IF f.panic THEN Panic
    ELSE [kind |-> "next", err |-> "nil", cuesheet |-> [cs EXCEPT ![field] = f.v]]

TrackText(track, field, f) ==
    IF f.panic THEN Panic
    ELSE [kind |-> "next", err |-> "nil", track |-> [track EXCEPT ![field] = f.v]]

\* frame, err := ReadFrame(&line); if err != nil { return ... }; x.Field = frame
SheetGap(cs, field, fr) ==
    IF fr.panic THEN Panic
    ELSE IF fr.err # "nil" THEN Fail(fr.err)
    ELSE [kind |-> "next", err |-> "nil", cuesheet |-> [cs EXCEPT ![field] = fr.frame]]

TrackGap(track, field, fr) ==
    IF fr.panic THEN Panic
    ELSE IF fr.err # "nil" THEN Fail(fr.err)
    ELSE [kind |-> "next", err |-> "nil", track |-> [track EXCEPT ![field] = fr.frame]]

\* case "FILE": fname, then ftype
SheetFileType(cs, fname, ftype) ==
    IF fname.panic THEN Panic
    ELSE IF ftype.panic THEN Panic
    ELSE [kind |-> "file", err |-> "nil", cuesheet |-> cs,
          fname |-> fname.v, ftype |-> ftype.v]

SheetFile(cs, fname) == SheetFileType(cs, fname, ReadString(fname.s))

\* ReadFile: the switch on command
SheetDispatch(cs, command, rest) ==
    CASE command = Keyword.REM ->
           [kind |-> "next", err |-> "nil", cuesheet |-> [cs EXCEPT !.Rem = Append(@, rest)]]
      [] command = Keyword.CATALOG ->
           [kind |-> "next", err |-> "nil", cuesheet |-> [cs EXCEPT !.Catalog = rest]]
      [] command = Keyword.CDTEXTFILE -> SheetText(cs, "CdTextFile", ReadString(rest))
      [] command = Keyword.TITLE -> SheetText(cs, "Title", ReadString(rest))
      [] command = Keyword.PERFORMER -> SheetText(cs, "Performer", ReadString(rest))
      [] command = Keyword.SONGWRITER -> SheetText(cs, "SongWriter", ReadString(rest))
      [] command = Keyword.COMPOSER -> SheetText(cs, "Composer", ReadString(rest))
      [] command = Keyword.ARRANGER -> SheetText(cs, "Arranger", ReadString(rest))
      [] command = Keyword.MESSAGE -> SheetText(cs, "Message", ReadString(rest))
      [] command = Keyword.GENRE -> SheetText(cs, "Genre", ReadString(rest))
      [] command = Keyword.DISC_ID -> SheetText(cs, "DiscId", ReadString(rest))
      [] command = Keyword.UPC_EAN -> SheetText(cs, "UpcEan", ReadString(rest))
      [] command = Keyword.PREGAP -> SheetGap(cs, "Pregap", ReadFrame(rest))
      [] command = Keyword.POSTGAP -> SheetGap(cs, "Postgap", ReadFrame(rest))
      [] command = Keyword.FILE -> SheetFile(cs, ReadString(rest))
      [] OTHER -> [kind |-> "next", err |-> "nil", cuesheet |-> cs]

SheetCommand(cs, c) == IF c.panic THEN Panic ELSE SheetDispatch(cs, c.v, c.s)

\* ReadFile, the body of its loop from strings.Trim on
ReadFileLine(cs, line) ==
    CHOOSE h \in {SheetCommand(cs, c) : c \in {ReadString(Trim(line, delims))}} : TRUE

\* readTrack, case "FLAGS": the switch on one token
FlagOf(flags, tok) ==
    CASE tok = Keyword.DCP -> OrFlag(flags, Dcp)
      [] tok = Keyword.FourCH -> OrFlag(flags, Four_ch)
      [] tok = Keyword.PRE -> OrFlag(flags, Pre)
      [] tok = Keyword.SCMS -> OrFlag(flags, Scms)
      [] OTHER -> flags

\* readTrack, case "FLAGS": the token loop `for len(line) > 0`
RECURSIVE readFlags(_, _)
readFlagsToken(flags, tok) ==
    IF tok.panic THEN [flags |-> flags, panic |-> TRUE]
    ELSE readFlags(tok.s, FlagOf(flags, tok.v))

readFlags(line, flags) ==
    IF Len(line) = 0 THEN [flags |-> flags, panic |-> FALSE]
    ELSE CHOOSE fl \in {readFlagsToken(flags, tok) : tok \in {ReadString(line)}} : TRUE

TrackFlags(track, fl) ==
    IF fl.panic THEN Panic
    ELSE [kind |-> "next", err |-> "nil", track |-> [track EXCEPT !.Flags = fl.flags]]

\* case "INDEX": num, then frame, then the append
TrackIndexOf(track, num, frame) ==
    IF num.panic THEN Panic
    ELSE IF num.err # "nil" THEN Fail(num.err)
    ELSE IF frame.panic THEN Panic
    ELSE IF frame.err # "nil" THEN Fail(frame.err)
    ELSE [kind |-> "next", err |-> "nil",
          track |-> [track EXCEPT !.Index = Append(@, TrackIndex(num.n, frame.frame))]]

TrackIndexNum(track, num) ==
    CHOOSE h \in {TrackIndexOf(track, num, frame) : frame \in {ReadFrame(num.s)}} : TRUE

\* readTrack: the switch on command
TrackDispatch(track, command, rest) ==
    CASE command = Keyword.FLAGS -> TrackFlags(track, readFlags(rest, None))
      [] command = Keyword.ISRC ->
           [kind |-> "next", err |-> "nil", track |-> [track EXCEPT !.Isrc = rest]]
      [] command = Keyword.TITLE -> TrackText(track, "Title", ReadString(rest))
      [] command = Keyword.PERFORMER -> TrackText(track, "Performer", ReadString(rest))
      [] command = Keyword.SONGWRITER -> TrackText(track, "SongWriter", ReadString(rest))
      [] command = Keyword.COMPOSER -> TrackText(track, "Composer", ReadString(rest))
      [] command = Keyword.ARRANGER -> TrackText(track, "Arranger", ReadString(rest))
      [] command = Keyword.MESSAGE -> TrackText(track, "Message", ReadString(rest))
      [] command = Keyword.PREGAP -> TrackGap(track, "Pregap", ReadFrame(rest))
      [] command = Keyword.POSTGAP -> TrackGap(track, "Postgap", ReadFrame(rest))
      [] command = Keyword.INDEX ->
           CHOOSE h \in {TrackIndexNum(track, num) : num \in {ReadUint(rest)}} : TRUE
      [] command = Keyword.REM -> [kind |-> "next", err |-> "nil", track |-> track]
      [] OTHER -> [kind |-> "break", err |-> "nil", track |-> track]

TrackCommand(track, c) == IF c.panic THEN Panic ELSE TrackDispatch(track, c.v, c.s)

\* readTrack, the body of its loop from strings.Trim on
readTrackLine(track, line) ==
    CHOOSE h \in {TrackCommand(track, c) : c \in {ReadString(Trim(line, delims))}} : TRUE

\* case "TRACK": num, then the data type
TracksTrackOf(num, dtype) ==
    IF num.panic THEN Panic
    ELSE IF num.err # "nil" THEN Fail(num.err)
    ELSE IF dtype.panic THEN Panic
    ELSE [kind |-> "track", err |-> "nil",
          track |-> [ZeroTrack EXCEPT !.TrackNumber = num.n, !.TrackDataType = dtype.v]]

TracksTrack(num) == TracksTrackOf(num, ReadString(num.s))

\* readTracks: the switch on command
TracksDispatch(command, rest) ==
    CASE command = Keyword.TRACK -> TracksTrack(ReadUint(rest))
      [] OTHER -> [kind |-> "break", err |-> "nil"]

TracksCommand(c) == IF c.panic THEN Panic ELSE TracksDispatch(c.v, c.s)

\* readTracks, the body of its loop from strings.Trim on
readTracksLine(line) ==
    CHOOSE h \in {TracksCommand(c) : c \in {ReadString(Trim(line, delims))}} : TRUE

----------------------------------------------------------------------------
(* WriteFile                                                               *)

\* one `if len(x) > 0 { ws.WriteString(indent + "KEY " + FormatString(x) + eol) }`
WriteText(indent, key, x) ==
    IF Len(x) > 0 THEN indent \o key \o <<SP>> \o FormatString(x) \o eol ELSE <<>>

\* one `if len(x) > 0 { ws.WriteString(indent + "KEY " + x + eol) }`
WriteRaw(indent, key, x) ==
    IF Len(x) > 0 THEN indent \o key \o <<SP>> \o x \o eol ELSE <<>>

\* one `if x > 0 { ws.WriteString(indent + "KEY " + FormatFrame(x) + eol) }`
WriteGap(indent, key, x) ==
    IF x > 0 THEN indent \o key \o <<SP>> \o FormatFrame(x) \o eol ELSE <<>>

\* a FLAGS line that lists the flags from SCMS down to DCP
WriteFlagsReversed(flags) ==
    IF flags # None
    THEN Indent4 \o Keyword.FLAGS
         \o (IF HasFlag(flags, Scms) THEN <<SP>> \o Keyword.SCMS ELSE <<>>)
         \o (IF HasFlag(flags, Pre) THEN <<SP>> \o Keyword.PRE ELSE <<>>)
         \o (IF HasFlag(flags, Four_ch) THEN <<SP>> \o Keyword.FourCH ELSE <<>>)
         \o (IF HasFlag(flags, Dcp) THEN <<SP>> \o Keyword.DCP ELSE <<>>)
         \o eol
    ELSE <<>>

\* the FLAGS line of a track
WriteFlags(flags) ==
    IF flags # None
    THEN Indent4 \o Keyword.FLAGS
         \o (IF HasFlag(flags, Dcp) THEN <<SP>> \o Keyword.DCP ELSE <<>>)
         \o (IF HasFlag(flags, Four_ch) THEN <<SP>> \o Keyword.FourCH ELSE <<>>)
         \o (IF HasFlag(flags, Pre) THEN <<SP>> \o Keyword.PRE ELSE <<>>)
         \o (IF HasFlag(flags, Scms) THEN <<SP>> \o Keyword.SCMS ELSE <<>>)
         \o eol
    ELSE <<>>

\* the loop over track.Index
RECURSIVE WriteIndexes(_)
WriteIndexes(indexes) ==
    IF indexes = <<>> THEN <<>>
    ELSE Indent4 \o Keyword.INDEX \o <<SP>> \o FormatTrackNumber(Head(indexes).Number)
         \o <<SP>> \o FormatFrame(Head(indexes).Frame) \o eol
         \o WriteIndexes(Tail(indexes))

\* the body of the loop over file.Tracks
WriteTrack(track) ==
    Indent2 \o Keyword.TRACK \o <<SP>> \o FormatTrackNumber(track.TrackNumber)
        \o <<SP>> \o track.TrackDataType \o eol
    \o WriteFlags(track.Flags)
    \o WriteRaw(Indent4, Keyword.ISRC, track.Isrc)
    \o WriteText(Indent4, Keyword.TITLE, track.Title)
    \o WriteText(Indent4, Keyword.PERFORMER, track.Performer)
    \o WriteText(Indent4, Keyword.SONGWRITER, track.SongWriter)
    \o WriteText(Indent4, Keyword.COMPOSER, track.Composer)
    \o WriteText(Indent4, Keyword.ARRANGER, track.Arranger)
    \o WriteText(Indent4, Keyword.MESSAGE, track.Message)
    \o WriteGap(Indent4, Keyword.PREGAP, track.Pregap)
    \o WriteGap(Indent4, Keyword.POSTGAP, track.Postgap)
    \o WriteIndexes(track.Index)

RECURSIVE WriteTracks(_)
WriteTracks(tracks) ==
    IF tracks = <<>> THEN <<>> ELSE WriteTrack(Head(tracks)) \o WriteTracks(Tail(tracks))

\* the loop over cuesheet.File
RECURSIVE WriteFiles(_)
WriteFiles(files) ==
    IF files = <<>> THEN <<>>
    ELSE Keyword.FILE \o <<SP>> \o FormatString(Head(files).FileName)
         \o <<SP>> \o Head(files).FileType \o eol
         \o WriteTracks(Head(files).Tracks)
         \o WriteFiles(Tail(files))

\* the loop over cuesheet.Rem
RECURSIVE WriteRems(_)
WriteRems(rems) ==
    IF rems = <<>> THEN <<>>
    ELSE Keyword.REM \o <<SP>> \o Head(rems) \o eol \o WriteRems(Tail(rems))

\* WriteFile(w, cuesheet): the bytes it hands to the writer
WriteFile(cs) ==
    WriteRems(cs.Rem)
    \o WriteRaw(<<>>, Keyword.CATALOG, cs.Catalog)
    \o WriteText(<<>>, Keyword.CDTEXTFILE, cs.CdTextFile)
    \o WriteText(<<>>, Keyword.TITLE, cs.Title)
    \o WriteText(<<>>, Keyword.PERFORMER, cs.Performer)
    \o WriteText(<<>>, Keyword.SONGWRITER, cs.SongWriter)
    \o WriteText(<<>>, Keyword.COMPOSER, cs.Composer)
    \o WriteText(<<>>, Keyword.ARRANGER, cs.Arranger)
    \o WriteText(<<>>, Keyword.MESSAGE, cs.Message)
    \o WriteText(<<>>, Keyword.GENRE, cs.Genre)
    \o WriteText(<<>>, Keyword.DISC_ID, cs.DiscId)
    \o WriteText(<<>>, Keyword.UPC_EAN, cs.UpcEan)
    \o WriteGap(<<>>, Keyword.PREGAP, cs.Pregap)
    \o WriteGap(<<>>, Keyword.POSTGAP, cs.Postgap)
    \o WriteFiles(cs.File)

----------------------------------------------------------------------------
(* Validation                                                              *)

isLetter(c) == c \in UpperLetters \cup LowerLetters
isDigit(c) == c \in Digits
isAlphaNum(c) == isLetter(c) \/ isDigit(c)

\* ValidateCatalog(catalog)
ValidateCatalog(catalog) ==
    IF Len(catalog) # 13 THEN "ErrSyntax"
    ELSE IF \E i \in 1..Len(catalog) : catalog[i] \notin Digits THEN "ErrSyntax"
    ELSE "nil"

\* ValidateISRC(isrc)
ValidateISRC(isrc) ==
    IF Len(isrc) # 12 THEN "ErrSyntax"
    ELSE IF ~isLetter(isrc[1]) \/ ~isLetter(isrc[2]) THEN "ErrSyntax"
    ELSE IF \E i \in 3..5 : ~isAlphaNum(isrc[i]) THEN "ErrSyntax"
    ELSE IF \E i \in 6..12 : ~isDigit(isrc[i]) THEN "ErrSyntax"
    ELSE "nil"

ValidFileTypes ==
    { <<"B", "I", "N", "A", "R", "Y">>, <<"M", "O", "T", "O", "R", "O", "L", "A">>,
      <<"A", "I", "F", "F">>, <<"W", "A", "V", "E">>, <<"M", "P", "3">> }

\* ValidateFileType(fileType)
ValidateFileType(fileType) == IF fileType \notin ValidFileTypes THEN "ErrSyntax" ELSE "nil"

\* the keys of ValidTrackModes
ValidTrackModes ==
    { <<"A", "U", "D", "I", "O">>, <<"C", "D", "G">>,
      <<"M", "O", "D", "E", "1", "/", "2", "0", "4", "8">>,
      <<"M", "O", "D", "E", "1", "/", "2", "3", "5", "2">>,
      <<"M", "O", "D", "E", "2", "/", "2", "3", "3", "6">>,
      <<"M", "O", "D", "E", "2", "/", "2", "3", "5", "2">>,
      <<"C", "D", "I", "/", "2", "3", "3", "6">>,
      <<"C", "D", "I", "/", "2", "3", "5", "2">> }

\* ValidateTrackDataType(dataType)
ValidateTrackDataType(dataType) ==
    IF dataType \notin ValidTrackModes THEN "ErrSyntax" ELSE "nil"

\* errs = append(errs, err) under if err != nil
AppendErr(err) == IF err = "nil" THEN <<>> ELSE <<err>>

\* Track.Validate: the loop over t.Index, its range check
RECURSIVE IndexRangeErrs(_)
IndexRangeErrs(indexes) ==
    IF indexes = <<>> THEN <<>>
    ELSE (IF Head(indexes).Number > 99 THEN <<"ErrRange">> ELSE <<>>)
         \o IndexRangeErrs(Tail(indexes))

\* Track.Validate: the loop over t.Index, its flag
hasIndex01(indexes) == \E i \in 1..Len(indexes) : indexes[i].Number = 1

\* Track.Validate: the list it builds
TrackErrs(t) ==
    (IF t.TrackNumber < 1 \/ t.TrackNumber > 99 THEN <<"ErrRange">> ELSE <<>>)
    \o IndexRangeErrs(t.Index)
    \o (IF ~hasIndex01(t.Index) THEN <<"ErrSyntax">> ELSE <<>>)
    \o (IF Len(t.Isrc) > 0 THEN AppendErr(ValidateISRC(t.Isrc)) ELSE <<>>)
    \o AppendErr(ValidateTrackDataType(t.TrackDataType))

\* a validation of a track that reports its first violation only
TrackValidateFirst(t) == SubSeq(TrackErrs(t), 1, Min(1, Len(TrackErrs(t))))

\* (t *Track) Validate()
TrackValidate(t) == TrackErrs(t)

\* Cuesheet.Validate: the loop over file.Tracks
RECURSIVE TracksErrs(_)
TracksErrs(tracks) ==
    IF tracks = <<>> THEN <<>>
    ELSE TrackValidate(Head(tracks)) \o TracksErrs(Tail(tracks))

\* Cuesheet.Validate: the loop over c.File
RECURSIVE FilesErrs(_)
FilesErrs(files) ==
    IF files = <<>> THEN <<>>
    ELSE AppendErr(ValidateFileType(Head(files).FileType))
         \o TracksErrs(Head(files).Tracks)
         \o FilesErrs(Tail(files))

\* (c *Cuesheet) Validate()
Validate(c) ==
    (IF Len(c.Catalog) > 0 THEN AppendErr(ValidateCatalog(c.Catalog)) ELSE <<>>)
    \o (IF Len(c.File) = 0 THEN <<"ErrSyntax">> ELSE <<>>)
    \o FilesErrs(c.File)

----------------------------------------------------------------------------
(* ReadFile as a state machine: one action per iteration of each of the    *)
(* three nested loops (ReadFile, readTracks, readTrack).                   *)

NoScope == [fname |-> <<>>, ftype |-> <<>>, tracks |-> <<>>, track |-> ZeroTrack]
NoRet == [sheet |-> <<>>, err |-> "nil", panic |-> FALSE]

\* return cuesheet, nil / return nil, err / a run-time panic
ReturnSheet(cs) == [sheet |-> <<cs>>, err |-> "nil", panic |-> FALSE]
ReturnErr(e) == [sheet |-> <<>>, err |-> e, panic |-> FALSE]
Panicked == [sheet |-> <<>>, err |-> "nil", panic |-> TRUE]

\* what the reader is left with after a read: the struct value kept is st for a
\* line that is consumed and the snapshot for one that is pushed back; the backing
\* array and the io.Reader are as the read left them either way
ReaderAfter(struct, st) ==
    /\ b' = struct
    /\ bufmem' = st.buf
    /\ rdpos' = st.pos

Done(r) ==
    /\ pc' = "done"
    /\ ret' = r
    /\ UNCHANGED <<cuesheet, frame_>>

\* ReadFile: what follows the line handler
ReadFileNext(h) ==
    IF h.kind = "panic" THEN Done(Panicked)
    ELSE IF h.kind = "error" THEN Done(ReturnErr(h.err))
    ELSE IF h.kind = "file"
    THEN /\ pc' = "readTracks"
         /\ frame_' = [NoScope EXCEPT !.fname = h.fname, !.ftype = h.ftype]
         /\ UNCHANGED <<cuesheet, ret>>
    ELSE /\ pc' = "ReadFile"
         /\ cuesheet' = h.cuesheet
         /\ UNCHANGED <<frame_, ret>>

\* ReadFile: what follows (*b).ReadString('\n')
ReadFileRead(rl) ==
    /\ ReaderAfter(StructOf(rl.st), rl.st)
    /\ IF rl.err = "EOF" THEN Done(ReturnSheet(cuesheet))
       ELSE \E h \in {ReadFileLine(cuesheet, rl.line)} : ReadFileNext(h)

\* one iteration of the loop of ReadFile
ReadFileStep ==
    /\ pc = "ReadFile"
    /\ \E rl \in {bReadString} : ReadFileRead(rl)
    /\ UNCHANGED <<arg, input, out, fs>>

\* readTracks returns to ReadFile, which appends File{fname, ftype, *tracks}
ReturnTracks ==
    /\ pc' = "ReadFile"
    /\ cuesheet' = [cuesheet EXCEPT
                       !.File = Append(@, File(frame_.fname, frame_.ftype, frame_.tracks))]
    /\ frame_' = NoScope
    /\ UNCHANGED ret

\* readTracks: what follows the line handler
readTracksNext(h) ==
    IF h.kind = "panic" THEN Done(Panicked)
    ELSE IF h.kind = "error" THEN Done(ReturnErr(h.err))
    ELSE IF h.kind = "track"
    THEN /\ pc' = "readTrack"
         /\ frame_' = [frame_ EXCEPT !.track = h.track]
         /\ UNCHANGED <<cuesheet, ret>>
    ELSE ReturnTracks

\* a readTracks that goes on with its loop after it has pushed a line back
readTracksReadContinues(before, rl) ==
    IF rl.err = "EOF"
    THEN ReaderAfter(StructOf(rl.st), rl.st) /\ ReturnTracks
    ELSE IF ~HasPrefix(rl.line, Indent2)
    THEN ReaderAfter(before, rl.st) /\ UNCHANGED <<pc, cuesheet, frame_, ret>>
    ELSE ReaderAfter(StructOf(rl.st), rl.st)
         /\ \E h \in {readTracksLine(rl.line)} : readTracksNext(h)

\* readTracks: what follows (*b).ReadString('\n'), before being the snapshot *b
readTracksRead(before, rl) ==
    IF rl.err = "EOF"
    THEN ReaderAfter(StructOf(rl.st), rl.st) /\ ReturnTracks
    ELSE IF ~HasPrefix(rl.line, Indent2)
    THEN ReaderAfter(before, rl.st) /\ ReturnTracks
    ELSE ReaderAfter(StructOf(rl.st), rl.st)
         /\ \E h \in {readTracksLine(rl.line)} : readTracksNext(h)

\* one iteration of the loop of readTracks
readTracksStep ==
    /\ pc = "readTracks"
    /\ \E rl \in {bReadString} : readTracksRead(b, rl)
    /\ UNCHANGED <<arg, input, out, fs>>

\* readTrack returns to readTracks, which appends the track
ReturnTrack ==
    /\ pc' = "readTracks"
    /\ frame_' = [frame_ EXCEPT !.tracks = Append(@, frame_.track), !.track = ZeroTrack]
    /\ UNCHANGED <<cuesheet, ret>>

\* readTrack: what follows the line handler
readTrackNext(h) ==
    IF h.kind = "panic" THEN Done(Panicked)
    ELSE IF h.kind = "error" THEN Done(ReturnErr(h.err))
    ELSE IF h.kind = "next"
    THEN /\ pc' = "readTrack"
         /\ frame_' = [frame_ EXCEPT !.track = h.track]
         /\ UNCHANGED <<cuesheet, ret>>
    ELSE ReturnTrack

\* a readTrack that reports the end of input as an error
readTrackReadEofFails(before, rl) ==
    IF rl.err = "EOF"
    THEN ReaderAfter(StructOf(rl.st), rl.st) /\ Done(ReturnErr("EOF"))
    ELSE IF ~HasPrefix(rl.line, Indent4)
    THEN ReaderAfter(before, rl.st) /\ ReturnTrack
    ELSE ReaderAfter(StructOf(rl.st), rl.st)
         /\ \E h \in {readTrackLine(frame_.track, rl.line)} : readTrackNext(h)

\* readTrack: what follows (*b).ReadString('\n'), before being the snapshot *b
readTrackRead(before, rl) ==
    IF rl.err = "EOF"
    THEN ReaderAfter(StructOf(rl.st), rl.st) /\ ReturnTrack
    ELSE IF ~HasPrefix(rl.line, Indent4)
    THEN ReaderAfter(before, rl.st) /\ ReturnTrack
    ELSE ReaderAfter(StructOf(rl.st), rl.st)
         /\ \E h \in {readTrackLine(frame_.track, rl.line)} : readTrackNext(h)

\* one iteration of the loop of readTrack
readTrackStep ==
    /\ pc = "readTrack"
    /\ \E rl \in {bReadString} : readTrackRead(b, rl)
    /\ UNCHANGED <<arg, input, out, fs>>

\* the caller serializes the sheet ReadFile returned
WriteBack ==
    /\ pc = "done"
    /\ ret.sheet # <<>>
    /\ pc' = "written"
    /\ out' = WriteFile(ret.sheet[1])
    /\ UNCHANGED fs
    /\ UNCHANGED <<arg, ret, input, rdpos, bufmem, b, cuesheet, frame_>>

----------------------------------------------------------------------------
(* Inputs of the parse: up to MaxLines lines of LinePool, each ended by a  *)
(* newline, the last one with or without it.                               *)

MaxLines == 3

LinePool ==
    << Keyword.FILE \o <<SP, DQ, "a", ".", "w", "a", "v", DQ, SP, "W", "A", "V", "E">>,
       Indent2 \o Keyword.TRACK \o <<SP, "0", "1", SP, "A", "U", "D", "I", "O">>,
       Indent4 \o Keyword.INDEX \o <<SP, "0", "1", SP, "0", "0", ":", "0", "0", ":", "0", "0">>,
       Indent4 \o Keyword.INDEX \o <<SP, "0", "1", SP, "0", ":", "x", ":", "0">>,
       Indent2 \o Keyword.TRACK \o <<SP, "x", SP, "A", "U", "D", "I", "O">>,
       Keyword.INDEX \o <<SP, "0", "1", SP, "x">>,
       Keyword.PREGAP \o <<SP, "x">>,
       Indent4 \o Keyword.POSTGAP \o <<SP, "1", ":", "2">>,
       Keyword.TITLE \o <<SP, "t">>,
       Keyword.REM \o <<SP, "c">>,
       Indent2 \o Keyword.TRACK \o <<SP, "0", "2", SP, "A", "U", "D", "I", "O">>,
       Indent4 \o Keyword.INDEX \o <<SP, "0", "2", SP, "0", "0", ":", "0", "0", ":", "0", "1">> >>

RECURSIVE JoinLines(_, _)
JoinLines(ids, nl) ==
    IF ids = <<>> THEN <<>>
    ELSE LinePool[Head(ids)]
         \o (IF Len(ids) > 1 \/ nl THEN <<LF>> ELSE <<>>)
         \o JoinLines(Tail(ids), nl)

\* no file at a path, a file holding lines, and the file system the parser never touches
NoFile == [exists |-> FALSE, lines |-> <<>>]
Stored(lines) == [exists |-> TRUE, lines |-> lines]
NoFiles == [cue |-> NoFile, bak |-> NoFile, outp |-> NoFile]

ParseStart(in, a) ==
    /\ pc = "ReadFile"
    /\ arg = a
    /\ ret = NoRet
    /\ input = in
    /\ rdpos = 0
    /\ bufmem = NewBuf
    /\ b = NewReader
    /\ cuesheet = ZeroCuesheet
    /\ frame_ = NoScope
    /\ out = <<>>
    /\ fs = NoFiles

Init ==
    \E n \in 0..MaxLines :
        \E ids \in [1..n -> 1..Len(LinePool)] :
            \E nl \in BOOLEAN :
                ParseStart(JoinLines(ids, nl), [lines |-> ids, nl |-> nl])

Next == ReadFileStep \/ readTracksStep \/ readTrackStep \/ WriteBack

Spec == Init /\ [][Next]_vars

----------------------------------------------------------------------------
(* What the lines of LinePool say, read off the lines themselves           *)

FileLines == {1}
TrackLines == {2, 11}
IndexLines == {3, 12}
\* the number a TRACK or INDEX line of the pool declares
DeclaredNumber(id) == IF id \in {2, 3} THEN 1 ELSE 2
\* PREGAP, POSTGAP, TRACK and INDEX lines of the pool with a malformed field
MalformedLines == {4, 5, 6, 7, 8}

finished == pc \in {"done", "written"}

\* the minimal valid sheet of the specification, and the sheets its prefixes give
MinimalLines == <<1, 2, 3>>
MinimalInput == JoinLines(MinimalLines, TRUE)
MinimalTrack(indexes) ==
    [ZeroTrack EXCEPT !.TrackNumber = 1, !.TrackDataType = <<"A", "U", "D", "I", "O">>,
                      !.Index = indexes]
MinimalSheet(tracks) ==
    [ZeroCuesheet EXCEPT
        !.File = <<File(<<"a", ".", "w", "a", "v">>, <<"W", "A", "V", "E">>, tracks)>>]
PrefixSheet(n) ==
    CASE n = 0 -> ZeroCuesheet
      [] n = 1 -> MinimalSheet(<<>>)
      [] n = 2 -> MinimalSheet(<<MinimalTrack(<<>>)>>)
      [] OTHER -> MinimalSheet(<<MinimalTrack(<<TrackIndex(1, 0)>>)>>)

----------------------------------------------------------------------------
(* C4 *)

\* C4, as claimed: whenever the input carries a PREGAP, POSTGAP, TRACK or INDEX
\* line with a malformed integer or frame field, ReadFile returns a non-nil error
\* and no sheet, whatever was parsed before that line.
C4_AnyMalformedLineFails ==
    (finished /\ \E i \in 1..Len(arg.lines) : arg.lines[i] \in MalformedLines)
        => (ret.err # "nil" /\ ret.sheet = <<>>)

----------------------------------------------------------------------------
(* C5 *)

IsPrefixOfMinimal(ids) == Len(ids) <= 3 /\ ids = SubSeq(MinimalLines, 1, Len(ids))

\* C5: end of input closes every open scope without error.  An input without a
\* malformed line, ending at whatever level, gives a sheet and a nil error; the
\* input cut after 0, 1, 2 or 3 lines of the minimal sheet (zero bytes, after the
\* FILE line, after the TRACK line, after the INDEX line) gives the sheet holding
\* exactly what those lines declare, the zero-byte input a sheet with no file.
C5_EndOfInputClosesScopes ==
    finished =>
        /\ (\A i \in 1..Len(arg.lines) : arg.lines[i] \notin MalformedLines)
              => (ret.err = "nil" /\ ~ret.panic /\ ret.sheet # <<>>)
        /\ (IsPrefixOfMinimal(arg.lines) /\ arg.nl)
              => ret = ReturnSheet(PrefixSheet(Len(arg.lines)))
        /\ input = <<>> => (ret.sheet # <<>> /\ Len(ret.sheet[1].File) = 0)

\* the input ended inside a track's detail lines and the sheet holds the track
C5_Witness ==
    /\ pc = "done"
    /\ arg.lines = <<1, 2>>
    /\ arg.nl
    /\ ret.err = "nil"
    /\ Len(ret.sheet[1].File[1].Tracks) = 1

----------------------------------------------------------------------------
(* C7 *)

\* the files, tracks and index numbers that a sequence of pool lines declares:
\* a FILE line opens a file, a TRACK line a track of the last file, an INDEX line
\* an index of the last track
AddTrack(files, num) ==
    [files EXCEPT ![Len(files)] = Append(@, [num |-> num, idx |-> <<>>])]
AddIndex(files, num) ==
    [files EXCEPT ![Len(files)] =
        [@ EXCEPT ![Len(@)] = [@ EXCEPT !.idx = Append(@, num)]]]

RECURSIVE Declared(_, _)
Declared(ids, files) ==
    IF ids = <<>> THEN files
    ELSE IF Head(ids) \in FileLines THEN Declared(Tail(ids), Append(files, <<>>))
    ELSE IF Head(ids) \in TrackLines /\ files # <<>>
    THEN Declared(Tail(ids), AddTrack(files, DeclaredNumber(Head(ids))))
    ELSE IF Head(ids) \in IndexLines /\ files # <<>> /\ files[Len(files)] # <<>>
    THEN Declared(Tail(ids), AddIndex(files, DeclaredNumber(Head(ids))))
    ELSE Declared(Tail(ids), files)

\* the same view of a parsed sheet
RECURSIVE ShapeOfIndexes(_)
ShapeOfIndexes(indexes) ==
    IF indexes = <<>> THEN <<>>
    ELSE <<Head(indexes).Number>> \o ShapeOfIndexes(Tail(indexes))
RECURSIVE ShapeOfTracks(_)
ShapeOfTracks(tracks) ==
    IF tracks = <<>> THEN <<>>
    ELSE <<[num |-> Head(tracks).TrackNumber, idx |-> ShapeOfIndexes(Head(tracks).Index)]>>
         \o ShapeOfTracks(Tail(tracks))
RECURSIVE ShapeOfFiles(_)
ShapeOfFiles(files) ==
    IF files = <<>> THEN <<>>
    ELSE <<ShapeOfTracks(Head(files).Tracks)>> \o ShapeOfFiles(Tail(files))

\* only FILE, TRACK and INDEX lines, well formed, at their indentation and nested
\* as the format nests them: a FILE line first, every INDEX line after a TRACK or
\* an INDEX line
StructuralOnly(ids) ==
    /\ \A i \in 1..Len(ids) : ids[i] \in FileLines \cup TrackLines \cup IndexLines
    /\ ids # <<>> => ids[1] \in FileLines
    /\ \A i \in 2..Len(ids) :
          ids[i] \in IndexLines => ids[i - 1] \in TrackLines \cup IndexLines

\* C7, as claimed: for an input of FILE, TRACK and INDEX lines at their defined
\* indentation, properly nested, the parsed sheet has one file per FILE line,
\* each with the tracks of the TRACK lines up to the next FILE line, each with
\* the indexes of the INDEX lines up to the next TRACK or FILE line, in input
\* order, none dropped.
C7_StructureBuilt ==
    (finished /\ StructuralOnly(arg.lines))
        => /\ ret.err = "nil"
           /\ ret.sheet # <<>>
           /\ ShapeOfFiles(ret.sheet[1].File) = Declared(arg.lines, <<>>)

----------------------------------------------------------------------------
(* C8 *)

\* what WriteFile makes of the minimal sheet: the file name without its quotes
MinimalWritten ==
    Keyword.FILE \o <<SP, "a", ".", "w", "a", "v", SP, "W", "A", "V", "E", LF>>
    \o LinePool[2] \o <<LF>> \o LinePool[3] \o <<LF>>

\* C8, as claimed: serializing the sheet parsed from the minimal valid input
\* reproduces exactly the lines of that input.
C8_MinimalReproduced == (pc = "written" /\ input = MinimalInput) => out = input

\* C8, amended: serializing the sheet parsed from the minimal valid input
\* reproduces its TRACK and INDEX lines exactly and writes the FILE line with the
\* name unquoted, FILE a.wav WAVE.
C8_MinimalWrittenBare == (pc = "written" /\ input = MinimalInput) => out = MinimalWritten

C8_Witness == pc = "written" /\ input = MinimalInput /\ Len(out) = Len(MinimalInput) - 2

----------------------------------------------------------------------------
(* The frame and number conversions on their own: FormatFrame followed by  *)
(* ReadFrame of the text it gave, ReadFrame of a field, FormatTrackNumber. *)

MaxMinutes == 101
MaxComponents == 4
MaxTrackNumber == 100

\* frames of 0..2 and 98..MaxMinutes minutes
FramePool ==
    { (mm * 60 + ss) * framesPerSecond + ff :
        mm \in (0..2) \cup (98..MaxMinutes), ss \in {0, 1, 59}, ff \in {0, 1, 74} }

\* the components a field is made of: the text, whether it is an unsigned decimal
\* integer that fits 32 bits, and its value
ComponentPool ==
    << [text |-> <<"0">>, ok |-> TRUE, value |-> 0],
       [text |-> <<"1">>, ok |-> TRUE, value |-> 1],
       [text |-> <<"5", "9">>, ok |-> TRUE, value |-> 59],
       [text |-> <<"7", "5">>, ok |-> TRUE, value |-> 75],
       [text |-> <<"0", "0", "7">>, ok |-> TRUE, value |-> 7],
       [text |-> <<"4", "2", "9", "4", "9", "6">>, ok |-> TRUE, value |-> 429496],
       [text |-> <<>>, ok |-> FALSE, value |-> 0],
       [text |-> <<"x">>, ok |-> FALSE, value |-> 0],
       [text |-> <<"+", "1">>, ok |-> FALSE, value |-> 0],
       [text |-> <<"4", "2", "9", "4", "9", "6", "7", "2", "9", "6">>, ok |-> FALSE, value |-> 0] >>

RECURSIVE JoinComponents(_)
JoinComponents(comps) ==
    IF comps = <<>> THEN <<>>
    ELSE ComponentPool[Head(comps)].text
         \o (IF Len(comps) > 1 THEN <<":">> ELSE <<>>)
         \o JoinComponents(Tail(comps))

ConversionStart(op, frame, comps, n, text) ==
    /\ pc = op
    /\ arg = [op |-> op, frame |-> frame, comps |-> comps, n |-> n]
    /\ ret = NoRet
    /\ input = text
    /\ rdpos = 0
    /\ bufmem = NewBuf
    /\ b = NewReader
    /\ cuesheet = ZeroCuesheet
    /\ frame_ = NoScope
    /\ out = <<>>
    /\ fs = NoFiles

InitFrame ==
    \/ \E f \in FramePool : ConversionStart("FormatFrame", f, <<>>, 0, <<>>)
    \/ \E k \in 1..MaxComponents :
          \E comps \in [1..k -> 1..Len(ComponentPool)] :
              ConversionStart("ReadFrame", 0, comps, 0, JoinComponents(comps))
    \/ \E n \in 0..MaxTrackNumber : ConversionStart("FormatTrackNumber", 0, <<>>, n, <<>>)

\* s := FormatFrame(frame)
FormatFrameStep ==
    /\ pc = "FormatFrame"
    /\ out' = FormatFrame(arg.frame)
    /\ UNCHANGED fs
    /\ input' = out'
    /\ pc' = "ReadFrame"
    /\ UNCHANGED <<arg, ret, rdpos, bufmem, b, cuesheet, frame_>>

\* frame, err := ReadFrame(&s)
ReadFrameStep ==
    /\ pc = "ReadFrame"
    /\ ret' = ReadFrame(input)
    /\ pc' = "done"
    /\ UNCHANGED <<arg, input, rdpos, bufmem, b, cuesheet, frame_, out, fs>>

\* s := FormatTrackNumber(n)
FormatTrackNumberStep ==
    /\ pc = "FormatTrackNumber"
    /\ out' = FormatTrackNumber(arg.n)
    /\ UNCHANGED fs
    /\ pc' = "done"
    /\ UNCHANGED <<arg, ret, input, rdpos, bufmem, b, cuesheet, frame_>>

NextFrame == FormatFrameStep \/ ReadFrameStep \/ FormatTrackNumberStep

SpecFrame == InitFrame /\ [][NextFrame]_vars

----------------------------------------------------------------------------
(* FormatString followed by ReadString of the text it gave                 *)

MaxLen == 3

StringAlphabet == {"a", SP, TAB, DQ, BSL}

InitString ==
    \E n \in 0..MaxLen :
        \E s \in [1..n -> StringAlphabet] :
            /\ pc = "FormatString"
            /\ arg = [s |-> s]
            /\ ret = NoRet
            /\ input = <<>>
            /\ rdpos = 0
            /\ bufmem = NewBuf
            /\ b = NewReader
            /\ cuesheet = ZeroCuesheet
            /\ frame_ = NoScope
            /\ out = <<>>
            /\ fs = NoFiles

\* text := FormatString(s)
FormatStringStep ==
    /\ pc = "FormatString"
    /\ out' = FormatString(arg.s)
    /\ UNCHANGED fs
    /\ input' = out'
    /\ pc' = "ReadString"
    /\ UNCHANGED <<arg, ret, rdpos, bufmem, b, cuesheet, frame_>>

\* v := ReadString(&text)
ReadStringStep ==
    /\ pc = "ReadString"
    /\ ret' = ReadString(input)
    /\ pc' = "done"
    /\ UNCHANGED <<arg, input, rdpos, bufmem, b, cuesheet, frame_, out, fs>>

NextString == FormatStringStep \/ ReadStringStep

SpecString == InitString /\ [][NextString]_vars

----------------------------------------------------------------------------
(* Validate on sheets of up to MaxFiles files with up to MaxTracks tracks  *)

MaxFiles == 2
MaxTracks == 2

AUDIO == <<"A", "U", "D", "I", "O">>
WAVE == <<"W", "A", "V", "E">>

CatalogPool ==
    { <<>>, <<"1", "2", "3", "4", "5", "6", "7", "8", "9", "0", "1", "2", "3">>, <<"1", "2", "3", "4", "5", "6", "7", "8", "9", "0", "1", "2">>, <<"1", "2", "3", "4", "5", "6", "7", "8", "9", "0", "1", "2", "x">> }

FileTypePool == { WAVE, <<"W", "A", "V">> }

IndexesOf(numbers) == [i \in 1..Len(numbers) |-> TrackIndex(numbers[i], 0)]

TrackOf(number, dtype, numbers, isrc) ==
    [ZeroTrack EXCEPT !.TrackNumber = number, !.TrackDataType = dtype,
                      !.Index = IndexesOf(numbers), !.Isrc = isrc]

TrackPool ==
    << TrackOf(1, AUDIO, <<1>>, <<>>),
       TrackOf(0, AUDIO, <<1>>, <<>>),
       TrackOf(100, AUDIO, <<1>>, <<>>),
       TrackOf(99, <<"M", "O", "D", "E", "1", "/", "2", "3", "5", "2">>, <<0, 1, 99>>, <<"U", "S", "A", "B", "C", "1", "2", "3", "4", "5", "6", "7">>),
       TrackOf(1, AUDIO, <<>>, <<>>),
       TrackOf(1, AUDIO, <<0>>, <<>>),
       TrackOf(1, AUDIO, <<1, 100, 101>>, <<>>),
       TrackOf(1, AUDIO, <<100>>, <<>>),
       TrackOf(1, AUDIO, <<1>>, <<"u", "s", "a", "1", "c", "1", "2", "3", "4", "5", "6", "7">>),
       TrackOf(1, AUDIO, <<1>>, <<"U", "S", "A", "B", "C", "1", "2", "3", "4", "5", "6">>),
       TrackOf(1, AUDIO, <<1>>, <<"U", "S", "A", "B", "C", "1", "2", "3", "4", "5", "6", "x">>),
       TrackOf(1, AUDIO, <<1>>, <<"U", "1", "A", "B", "C", "1", "2", "3", "4", "5", "6", "7">>),
       TrackOf(1, AUDIO, <<1>>, <<"U", "S", "A", "-", "C", "1", "2", "3", "4", "5", "6", "7">>),
       TrackOf(1, <<"a", "u", "d", "i", "o">>, <<1>>, <<>>),
       TrackOf(0, <<>>, <<100, 0>>, <<"1", "S", "A", "B", "C", "1", "2", "3", "4", "5", "6", "7">>),
       [TrackOf(1, AUDIO, <<>>, <<>>) EXCEPT
           !.Index = <<TrackIndex(0, 0), TrackIndex(1, 2 * framesPerSecond)>>],
       [TrackOf(1, AUDIO, <<>>, <<>>) EXCEPT
           !.Index = <<TrackIndex(0, 2 * framesPerSecond), TrackIndex(1, 0)>>] >>

\* the sheet with the catalog, a file of each type and, in every file, the tracks
SheetOf(catalog, types, tracks) ==
    [ZeroCuesheet EXCEPT
        !.Catalog = catalog,
        !.File = [i \in 1..Len(types) |-> File(<<"a", ".", "w", "a", "v">>, types[i], tracks)]]

InitValidate ==
    \E catalog \in CatalogPool :
        \E nf \in 0..MaxFiles, nt \in 0..MaxTracks :
            \E types \in [1..nf -> FileTypePool], ids \in [1..nt -> 1..Len(TrackPool)] :
                /\ pc = "Validate"
                /\ arg = [sheet |-> SheetOf(catalog, types, [i \in 1..nt |-> TrackPool[ids[i]]])]
                /\ ret = <<>>
                /\ input = <<>>
                /\ rdpos = 0
                /\ bufmem = NewBuf
                /\ b = NewReader
                /\ cuesheet = ZeroCuesheet
                /\ frame_ = NoScope
                /\ out = <<>>
                /\ fs = NoFiles

\* errs := c.Validate()
ValidateStep ==
    /\ pc = "Validate"
    /\ ret' = Validate(arg.sheet)
    /\ pc' = "done"
    /\ UNCHANGED <<arg, input, rdpos, bufmem, b, cuesheet, frame_, out, fs>>

NextValidate == ValidateStep

SpecValidate == InitValidate /\ [][NextValidate]_vars

----------------------------------------------------------------------------
(* WriteFile of a valid sheet followed by ReadFile of the text             *)

TitlePool == { <<>>, <<"t">>, <<"a", SP, "b">>, <<"a", SP, DQ, "b">> }
RemPool == { <<>>, <<<<"c">>>>, <<<<"d", SP, "1">>, <<"c">>>> }
FlagsPool == { None, Dcp + Pre }
FramesPool == { <<0>>, <<0, 150>>, <<449999>>, <<450000>> }

\* indexes numbered from 1, or from 0 when there are two, at the frames
IndexesAt(frames) ==
    [i \in 1..Len(frames) |-> TrackIndex(IF Len(frames) > 1 THEN i - 1 ELSE i, frames[i])]

WrittenSheet(title, rems, flags, frames) ==
    [ZeroCuesheet EXCEPT
        !.Title = title,
        !.Rem = rems,
        !.File = << File(<<"a", ".", "w", "a", "v">>, WAVE,
                         << [ZeroTrack EXCEPT !.TrackNumber = 1, !.TrackDataType = AUDIO,
                                              !.Flags = flags,
                                              !.Index = IndexesAt(frames)] >>) >>]

InitRoundTrip ==
    \E title \in TitlePool, rems \in RemPool, flags \in FlagsPool, frames \in FramesPool :
        /\ Validate(WrittenSheet(title, rems, flags, frames)) = <<>>
        /\ pc = "WriteFile"
        /\ arg = [sheet |-> WrittenSheet(title, rems, flags, frames)]
        /\ ret = NoRet
        /\ input = <<>>
        /\ rdpos = 0
        /\ bufmem = NewBuf
        /\ b = NewReader
        /\ cuesheet = ZeroCuesheet
        /\ frame_ = NoScope
        /\ out = <<>>
        /\ fs = NoFiles

\* WriteFile(w, sheet), and the text handed to ReadFile
WriteFileStep ==
    /\ pc = "WriteFile"
    /\ out' = WriteFile(arg.sheet)
    /\ UNCHANGED fs
    /\ input' = out'
    /\ pc' = "ReadFile"
    /\ UNCHANGED <<arg, ret, rdpos, bufmem, b, cuesheet, frame_>>

NextRoundTrip == WriteFileStep \/ ReadFileStep \/ readTracksStep \/ readTrackStep

SpecRoundTrip == InitRoundTrip /\ [][NextRoundTrip]_vars

----------------------------------------------------------------------------
(* C1 *)

\* C1, as claimed: for every valid sheet S, ReadFile of the text WriteFile
\* produces for S returns, without error, a sheet equal to S field for field.
C1_RoundTrip == pc = "done" => ret = ReturnSheet(arg.sheet)

----------------------------------------------------------------------------
(* C2 *)

\* C2, as claimed: for every frame count f, ReadFrame of the text FormatFrame(f)
\* returns f without error.
C2_FrameTimeInverse ==
    (pc = "done" /\ arg.op = "FormatFrame") => (ret.err = "nil" /\ ret.frame = arg.frame)

----------------------------------------------------------------------------
(* C3 *)

\* C3, as claimed: for a string s with a delimiter character, the field
\* ReadString extracts from FormatString(s) is s itself; for a string s without
\* one, FormatString(s) is s unchanged.
C3_QuotingIdempotent ==
    /\ (pc = "done" /\ ContainsAny(arg.s, delims)) => (~ret.panic /\ ret.v = arg.s)
    /\ (pc # "FormatString" /\ ~ContainsAny(arg.s, delims)) => out = arg.s

----------------------------------------------------------------------------
(* C6 *)

BoolToInt(p) == IF p THEN 1 ELSE 0

RECURSIVE SumSeq(_)
SumSeq(s) == IF s = <<>> THEN 0 ELSE Head(s) + SumSeq(Tail(s))

\* exactly 13 ASCII digits
CatalogWellFormed(c) == Len(c) = 13 /\ \A i \in 1..Len(c) : c[i] \in Digits

\* 2 letters, 3 alphanumerics and 7 digits
IsrcWellFormed(x) ==
    /\ Len(x) = 12
    /\ \A i \in 1..2 : x[i] \in UpperLetters \cup LowerLetters
    /\ \A i \in 3..5 : x[i] \in UpperLetters \cup LowerLetters \cup Digits
    /\ \A i \in 6..12 : x[i] \in Digits

\* the range checks a track fails: its number, and each index number above 99
TrackRangeFailures(t) ==
    BoolToInt(t.TrackNumber \notin 1..99)
    + Cardinality({i \in 1..Len(t.Index) : t.Index[i].Number > 99})

\* the other checks a track fails: no index numbered 1, the ISRC, the data type
TrackSyntaxFailures(t) ==
    BoolToInt(\A i \in 1..Len(t.Index) : t.Index[i].Number # 1)
    + BoolToInt(t.Isrc # <<>> /\ ~IsrcWellFormed(t.Isrc))
    + BoolToInt(t.TrackDataType \notin ValidTrackModes)

RangeFailures(c) ==
    SumSeq([i \in 1..Len(c.File) |->
               SumSeq([j \in 1..Len(c.File[i].Tracks) |->
                          TrackRangeFailures(c.File[i].Tracks[j])])])

SyntaxFailures(c) ==
    BoolToInt(c.Catalog # <<>> /\ ~CatalogWellFormed(c.Catalog))
    + BoolToInt(c.File = <<>>)
    + SumSeq([i \in 1..Len(c.File) |->
                 BoolToInt(c.File[i].FileType \notin ValidFileTypes)
                 + SumSeq([j \in 1..Len(c.File[i].Tracks) |->
                              TrackSyntaxFailures(c.File[i].Tracks[j])])])

CountOf(errs, e) == Cardinality({i \in 1..Len(errs) : errs[i] = e})

\* C6: Validate returns one violation for each failed check and none for a passed
\* check, never stopping at the first failure: the list has one range error per
\* failed range check (track number outside 1..99, each index number above 99)
\* and one syntax error per other failed check (catalog, no file, file type, no
\* index 1, ISRC, track data type), and it is empty exactly when no check fails.
C6_ValidateExhaustive ==
    pc = "done" =>
        /\ CountOf(ret, "ErrRange") = RangeFailures(arg.sheet)
        /\ CountOf(ret, "ErrSyntax") = SyntaxFailures(arg.sheet)
        /\ Len(ret) = RangeFailures(arg.sheet) + SyntaxFailures(arg.sheet)
        /\ ret = <<>> <=> (RangeFailures(arg.sheet) + SyntaxFailures(arg.sheet) = 0)

\* a sheet with a bad catalog and two files whose tracks fail several checks each:
\* every one of the violations is in the list
C6_Witness ==
    /\ pc = "done"
    /\ Len(arg.sheet.File) = 2
    /\ Len(arg.sheet.File[1].Tracks) = 2
    /\ arg.sheet.File[1].Tracks[1] = TrackPool[Len(TrackPool)]
    /\ Len(ret) >= 10

----------------------------------------------------------------------------
(* C9 *)

AllOk(comps) == \A i \in 1..Len(comps) : ComponentPool[comps[i]].ok
ValueOf(comps, i) == ComponentPool[comps[i]].value

\* C9: ReadFrame on a field of exactly three unsigned decimal components
\* mm:ss:ff returns the frame (mm*60 + ss)*75 + ff and no error; it returns an
\* error and frame 0 when the number of components is not three or a component
\* is not an unsigned decimal integer that fits 32 bits.
C9_ReadFrameFormula ==
    (pc = "done" /\ arg.op = "ReadFrame") =>
        /\ ~ret.panic
        /\ IF Len(arg.comps) = 3 /\ AllOk(arg.comps)
           THEN /\ ret.err = "nil"
                /\ ret.frame = (ValueOf(arg.comps, 1) * 60 + ValueOf(arg.comps, 2)) * 75
                               + ValueOf(arg.comps, 3)
           ELSE ret.err # "nil" /\ ret.frame = 0

\* the field 59:59:75 was read as frame (59*60 + 59)*75 + 75
C9_Witness ==
    /\ pc = "done"
    /\ arg.op = "ReadFrame"
    /\ input = <<"5", "9", ":", "5", "9", ":", "7", "5">>
    /\ ret.err = "nil"
    /\ ret.frame = (59 * 60 + 59) * 75 + 75

----------------------------------------------------------------------------
(* C10 *)

\* a decimal text left-padded with zeros to at least 2 digits
PadTwo(s) == IF Len(s) >= 2 THEN s ELSE Repeat(<<"0">>, 2 - Len(s)) \o s

\* C10, as claimed: FormatTrackNumber(n) is the decimal form of n left-padded to
\* at least 2 digits, and FormatFrame(f) is MM:SS:FF with SS = (f div 75) mod 60
\* and FF = f mod 75 in exactly 2 digits and MM = f div 4500 in at least 2 digits;
\* no digit is dropped.
C10_PaddingKeepsDigits ==
    /\ (pc = "done" /\ arg.op = "FormatTrackNumber") => out = PadTwo(FormatUint(arg.n))
    /\ (pc # "FormatFrame" /\ arg.op = "FormatFrame")
          => out = PadTwo(FormatUint(arg.frame \div 4500)) \o <<":">>
                   \o PadTwo(FormatUint((arg.frame \div 75) % 60)) \o <<":">>
                   \o PadTwo(FormatUint(arg.frame % 75))

----------------------------------------------------------------------------
(* WriteFile on its own: sheets with every choice of sheet-level fields,   *)
(* tracks with every choice of flags, and a writer that may fail.          *)

MaxRems == 2

\* the sheet-level fields other than Rem and File, in the order of the struct
SheetFields ==
    {"Catalog", "CdTextFile", "Title", "Performer", "SongWriter", "Composer",
     "Arranger", "Message", "Genre", "DiscId", "UpcEan", "Pregap", "Postgap"}

FlagSets == SUBSET {Dcp, Four_ch, Pre, Scms}

RECURSIVE FlagsOf(_)
FlagsOf(set) ==
    IF set = {} THEN None
    ELSE FlagsOf(set \ {CHOOSE x \in set : TRUE}) + (CHOOSE x \in set : TRUE)

\* two files whose tracks and indexes are stored out of numeric order
StoredFiles(flags) ==
    << File(<<"a", ".", "w", "a", "v">>, <<"W", "A", "V", "E">>,
            << [ZeroTrack EXCEPT !.TrackNumber = 2, !.TrackDataType = <<"C", "D", "G">>,
                                 !.Flags = flags,
                                 !.Index = <<TrackIndex(1, 150), TrackIndex(0, 75)>>],
               [ZeroTrack EXCEPT !.TrackNumber = 1, !.TrackDataType = <<"A", "U", "D", "I", "O">>,
                                 !.Index = <<TrackIndex(1, 0)>>] >>),
       File(<<"b", ".", "m", "p", "3">>, <<"M", "P", "3">>, <<>>) >>

\* the sheet with nrem comments, the fields of present set, and the files
SheetWith(present, nrem, files) ==
    [f \in DOMAIN ZeroCuesheet |->
        IF f = "Rem" THEN [i \in 1..nrem |-> <<"c", DigitSeq[i + 1]>>]
        ELSE IF f = "File" THEN files
        ELSE IF f \notin present THEN ZeroCuesheet[f]
        ELSE IF f \in {"Pregap", "Postgap"} THEN 150
        ELSE <<"x">>]

\* what the io.Writer behind WriteFile does with the text handed to it: accepts
\* all of it (accepts < 0), or accepts that many bytes and reports an error
Sink(text, accepts) ==
    IF accepts < 0 THEN [out |-> text, err |-> "nil"]
    ELSE [out |-> SubSeq(text, 1, Min(accepts, Len(text))), err |-> "ErrClosedPipe"]

\* WriteFile(w, cuesheet): the results of ws.WriteString and ws.Flush are dropped
\* and the function ends with return nil
WriteFileTo(cs, accepts) == [out |-> Sink(WriteFile(cs), accepts).out, err |-> "nil"]

WriteStart(sheet, accepts) ==
    /\ pc = "WriteFile"
    /\ arg = [sheet |-> sheet, accepts |-> accepts]
    /\ ret = NoRet
    /\ input = <<>>
    /\ rdpos = 0
    /\ bufmem = NewBuf
    /\ b = NewReader
    /\ cuesheet = ZeroCuesheet
    /\ frame_ = NoScope
    /\ out = <<>>
    /\ fs = NoFiles

InitWrite ==
    \/ \E present \in SUBSET SheetFields, nrem \in 0..MaxRems :
          WriteStart(SheetWith(present, nrem, StoredFiles(None)), -1)
    \/ \E set \in FlagSets, accepts \in {-1, 0, 7} :
          WriteStart(SheetWith({"Title"}, 0, StoredFiles(FlagsOf(set))), accepts)

\* err := WriteFile(w, sheet)
WriteToStep ==
    /\ pc = "WriteFile"
    /\ out' = WriteFileTo(arg.sheet, arg.accepts).out
    /\ UNCHANGED fs
    /\ ret' = [NoRet EXCEPT !.err = WriteFileTo(arg.sheet, arg.accepts).err]
    /\ pc' = "done"
    /\ UNCHANGED <<arg, input, rdpos, bufmem, b, cuesheet, frame_>>

NextWrite == WriteToStep

SpecWrite == InitWrite /\ [][NextWrite]_vars

----------------------------------------------------------------------------
(* C11 *)

\* the lines of a text, and of a line the first word and the last word
TextLines(text) == SubSeq(Split(text, LF), 1, Len(Split(text, LF)) - 1)
FirstWord(line) ==
    IF IndexOf(line, SP) = 0 THEN line ELSE SubSeq(line, 1, IndexOf(line, SP) - 1)
RECURSIVE LastWord(_)
LastWord(line) ==
    IF IndexOf(line, SP) = 0 THEN line ELSE LastWord(From(line, IndexOf(line, SP)))

\* what the output shows of each line: its keyword, and for a FLAGS line the list
\* after it, for a FILE, TRACK or INDEX line its last word
LineView(line) ==
    IF FirstWord(line) = Keyword.FLAGS THEN <<FirstWord(line), From(line, Len(Keyword.FLAGS))>>
    ELSE IF FirstWord(line) \in {Keyword.FILE, Keyword.TRACK, Keyword.INDEX}
    THEN <<FirstWord(line), LastWord(line)>>
    ELSE <<FirstWord(line)>>
OutputView(text) ==
    [i \in 1..Len(TextLines(text)) |-> LineView(TrimLeft(TextLines(text)[i], {SP}))]

\* the fixed order of the sheet-level fields after the REM lines
CanonicalOrder ==
    << [field |-> "Catalog", key |-> Keyword.CATALOG],
       [field |-> "CdTextFile", key |-> Keyword.CDTEXTFILE],
       [field |-> "Title", key |-> Keyword.TITLE],
       [field |-> "Performer", key |-> Keyword.PERFORMER],
       [field |-> "SongWriter", key |-> Keyword.SONGWRITER],
       [field |-> "Composer", key |-> Keyword.COMPOSER],
       [field |-> "Arranger", key |-> Keyword.ARRANGER],
       [field |-> "Message", key |-> Keyword.MESSAGE],
       [field |-> "Genre", key |-> Keyword.GENRE],
       [field |-> "DiscId", key |-> Keyword.DISC_ID],
       [field |-> "UpcEan", key |-> Keyword.UPC_EAN],
       [field |-> "Pregap", key |-> Keyword.PREGAP],
       [field |-> "Postgap", key |-> Keyword.POSTGAP] >>

IsEmptyField(cs, field) ==
    IF field \in {"Pregap", "Postgap"} THEN cs[field] = 0 ELSE cs[field] = <<>>

RECURSIVE ExpectedFields(_, _)
ExpectedFields(cs, order) ==
    IF order = <<>> THEN <<>>
    ELSE (IF IsEmptyField(cs, Head(order).field) THEN <<>> ELSE << <<Head(order).key>> >>)
         \o ExpectedFields(cs, Tail(order))

\* the flags of a FLAGS line in the order DCP, 4CH, PRE, SCMS
ExpectedFlags(flags) ==
    (IF HasFlag(flags, Dcp) THEN <<SP, "D", "C", "P">> ELSE <<>>)
    \o (IF HasFlag(flags, Four_ch) THEN <<SP, "4", "C", "H">> ELSE <<>>)
    \o (IF HasFlag(flags, Pre) THEN <<SP, "P", "R", "E">> ELSE <<>>)
    \o (IF HasFlag(flags, Scms) THEN <<SP, "S", "C", "M", "S">> ELSE <<>>)

ExpectedTrack(t) ==
    << <<Keyword.TRACK, t.TrackDataType>> >>
    \o (IF t.Flags = None THEN <<>> ELSE << <<Keyword.FLAGS, ExpectedFlags(t.Flags)>> >>)
    \o [i \in 1..Len(t.Index) |-> <<Keyword.INDEX, FormatFrame(t.Index[i].Frame)>>]

RECURSIVE ExpectedTracks(_)
ExpectedTracks(tracks) ==
    IF tracks = <<>> THEN <<>>
    ELSE ExpectedTrack(Head(tracks)) \o ExpectedTracks(Tail(tracks))

RECURSIVE ExpectedFiles(_)
ExpectedFiles(files) ==
    IF files = <<>> THEN <<>>
    ELSE << <<Keyword.FILE, Head(files).FileType>> >>
         \o ExpectedTracks(Head(files).Tracks) \o ExpectedFiles(Tail(files))

ExpectedView(cs) ==
    [i \in 1..Len(cs.Rem) |-> <<Keyword.REM>>]
    \o ExpectedFields(cs, CanonicalOrder)
    \o ExpectedFiles(cs.File)

\* C11: WriteFile emits the REM lines, then the sheet-level fields that are not
\* empty or zero in the order CATALOG, CDTEXTFILE, TITLE, PERFORMER, SONGWRITER,
\* COMPOSER, ARRANGER, MESSAGE, GENRE, DISC_ID, UPC_EAN, PREGAP, POSTGAP, then
\* every file, its tracks and their indexes in stored order; a FLAGS line only
\* for a track with a flag set, listing the set flags in the order DCP, 4CH,
\* PRE, SCMS.
C11_CanonicalOrder ==
    (pc = "done" /\ arg.accepts < 0) => OutputView(out) = ExpectedView(arg.sheet)

\* a sheet with all four flags set on its first track has been written
C11_Witness ==
    /\ pc = "done"
    /\ arg.accepts < 0
    /\ arg.sheet.File[1].Tracks[1].Flags = Dcp + Four_ch + Pre + Scms
    /\ Len(OutputView(out)) = 9

----------------------------------------------------------------------------
(* C14 *)

\* C14, as claimed: when the output stream reports an error during the
\* serialization, WriteFile returns an error to its caller.
C14_WriteErrorPropagated ==
    (pc = "done" /\ arg.accepts >= 0) => ret.err # "nil"

----------------------------------------------------------------------------
(* REM comments: ParseRemComment, GetRemValue, GetRemByKey                 *)

RemType ==
    [RemUnknown |-> 0, RemDate |-> 1, RemGenre |-> 2, RemDiscNumber |-> 3,
     RemComment |-> 4, RemReplayGainAlbumGain |-> 5, RemReplayGainAlbumPeak |-> 6,
     RemReplayGainTrackGain |-> 7, RemReplayGainTrackPeak |-> 8]

\* strings.ToUpper on the characters the model uses
ToUpper(s) ==
    LET upper ==
          [a |-> "A", b |-> "B", c |-> "C", d |-> "D", e |-> "E", f |-> "F", g |-> "G",
           h |-> "H", i |-> "I", j |-> "J", k |-> "K", l |-> "L", m |-> "M", n |-> "N",
           o |-> "O", p |-> "P", q |-> "Q", r |-> "R", s |-> "S", t |-> "T", u |-> "U",
           v |-> "V", w |-> "W", x |-> "X", y |-> "Y", z |-> "Z"]
    IN  [i \in DOMAIN s |-> IF s[i] \in DOMAIN upper THEN upper[s[i]] ELSE s[i]]

\* strings.TrimSpace
TrimSpace(s) == Trim(s, {SP, TAB, LF, CR})

\* ParseRemComment: the switch on key
RemTypeOf(key) ==
    CASE key = <<"D", "A", "T", "E">> -> RemType.RemDate
      [] key = <<"G", "E", "N", "R", "E">> -> RemType.RemGenre
      [] key = <<"D", "I", "S", "C", "N", "U", "M", "B", "E", "R">> -> RemType.RemDiscNumber
      [] key = <<"C", "O", "M", "M", "E", "N", "T">> -> RemType.RemComment
      [] key = <<"R", "E", "P", "L", "A", "Y", "G", "A", "I", "N", "_", "A", "L", "B", "U", "M", "_", "G", "A", "I", "N">> -> RemType.RemReplayGainAlbumGain
      [] key = <<"R", "E", "P", "L", "A", "Y", "G", "A", "I", "N", "_", "A", "L", "B", "U", "M", "_", "P", "E", "A", "K">> -> RemType.RemReplayGainAlbumPeak
      [] key = <<"R", "E", "P", "L", "A", "Y", "G", "A", "I", "N", "_", "T", "R", "A", "C", "K", "_", "G", "A", "I", "N">> -> RemType.RemReplayGainTrackGain
      [] key = <<"R", "E", "P", "L", "A", "Y", "G", "A", "I", "N", "_", "T", "R", "A", "C", "K", "_", "P", "E", "A", "K">> -> RemType.RemReplayGainTrackPeak
      [] OTHER -> RemType.RemUnknown

\* ParseRemComment(rem): nil, false for the empty text; the key is the text before
\* the first space in upper case, the value the text after it, trimmed and, when it
\* starts with a quote, handed to unquote, whose panic is the call's
ParseRemComment(rem) ==
    LET sp == IndexOf(rem, SP)
        key == ToUpper(IF sp = 0 THEN rem ELSE SubSeq(rem, 1, sp - 1))
        value == IF sp = 0 THEN <<>> ELSE TrimSpace(From(rem, sp))
        u == IF isQuoted(value) THEN unquote(value) ELSE [v |-> value, panic |-> FALSE]
    IN  IF rem = <<>> THEN [field |-> <<>>, ok |-> FALSE, panic |-> FALSE]
        ELSE IF u.panic THEN [field |-> <<>>, ok |-> FALSE, panic |-> TRUE]
        ELSE [field |-> << [Key |-> key, Value |-> u.v, Type |-> RemTypeOf(key)] >>,
              ok |-> TRUE, panic |-> FALSE]

\* the loop of GetRemValue (byKey FALSE: field.Type == typ) and of GetRemByKey
\* (byKey TRUE: field.Key == upperKey) over c.Rem
RECURSIVE GetRemFirst(_, _, _, _)
GetRemFirst(rems, typ, upperKey, byKey) ==
    LET p == ParseRemComment(Head(rems))
    IN  IF rems = <<>> THEN [value |-> <<>>, ok |-> FALSE, panic |-> FALSE]
        ELSE IF p.panic THEN [value |-> <<>>, ok |-> FALSE, panic |-> TRUE]
        ELSE IF p.ok /\ (IF byKey THEN p.field[1].Key = upperKey ELSE p.field[1].Type = typ)
        THEN [value |-> p.field[1].Value, ok |-> TRUE, panic |-> FALSE]
        ELSE GetRemFirst(Tail(rems), typ, upperKey, byKey)

\* c.GetRemValue(typ)
GetRemValue(rems, typ) == GetRemFirst(rems, typ, <<>>, FALSE)

\* c.GetRemByKey(key)
GetRemByKey(rems, key) == GetRemFirst(rems, RemType.RemUnknown, ToUpper(key), TRUE)

MaxComments == 2

CommentPool ==
    << <<"D", "A", "T", "E", SP, DQ, "2", "0", "2", "4", DQ>>, <<"d", "a", "t", "e", SP, "1", "9", "9", "9">>, <<"G", "E", "N", "R", "E", SP, SQ, "R", "o", "c", "k", SQ>>, <<"D", "I", "S", "C", "N", "U", "M", "B", "E", "R", SP, "1">>,
       <<"C", "O", "M", "M", "E", "N", "T", SP, DQ, "a", SP, "b", DQ>>, <<"C", "o", "m", "m", "e", "n", "t", SP, SP, "x", SP>>, <<"C", "O", "M", "M", "E", "N", "T", SP, DQ, "a", BSL>>,
       <<"R", "E", "P", "L", "A", "Y", "G", "A", "I", "N", "_", "A", "L", "B", "U", "M", "_", "G", "A", "I", "N", SP, "-", "6", ".", "2", SP, "d", "B">>, <<"R", "E", "P", "L", "A", "Y", "G", "A", "I", "N", "_", "A", "L", "B", "U", "M", "_", "P", "E", "A", "K", SP, "0", ".", "9">>,
       <<"R", "E", "P", "L", "A", "Y", "G", "A", "I", "N", "_", "T", "R", "A", "C", "K", "_", "G", "A", "I", "N", SP, "1">>, <<"R", "E", "P", "L", "A", "Y", "G", "A", "I", "N", "_", "T", "R", "A", "C", "K", "_", "P", "E", "A", "K", SP, "1">>,
       <<"X">>, <<SP, "x">>, <<"D", "A", "T", "E">>, <<>> >>

RemLists ==
    UNION {[1..n -> {CommentPool[i] : i \in 1..Len(CommentPool)}] : n \in 1..MaxComments}

RemKeyPool == {<<"d", "a", "t", "e">>, <<"C", "O", "M", "M", "E", "N", "T">>, <<"x">>, <<>>}

RemStart(op, rems, typ, key) ==
    /\ pc = op
    /\ arg = [op |-> op, rems |-> rems, typ |-> typ, key |-> key]
    /\ ret = NoRet
    /\ input = <<>>
    /\ rdpos = 0
    /\ bufmem = NewBuf
    /\ b = NewReader
    /\ cuesheet = [ZeroCuesheet EXCEPT !.Rem = rems]
    /\ frame_ = NoScope
    /\ out = <<>>
    /\ fs = NoFiles

InitRem ==
    \/ \E i \in 1..Len(CommentPool) : RemStart("ParseRemComment", <<CommentPool[i]>>, 0, <<>>)
    \/ \E rems \in RemLists, typ \in {RemType.RemUnknown, RemType.RemDate, RemType.RemComment} :
          RemStart("GetRemValue", rems, typ, <<>>)
    \/ \E rems \in RemLists, key \in RemKeyPool : RemStart("GetRemByKey", rems, 0, key)

\* field, ok := ParseRemComment(rem)
ParseRemCommentStep ==
    /\ pc = "ParseRemComment"
    /\ ret' = ParseRemComment(cuesheet.Rem[1])
    /\ pc' = "done"
    /\ UNCHANGED <<arg, input, rdpos, bufmem, b, cuesheet, frame_, out, fs>>

\* value, ok := c.GetRemValue(typ)
GetRemValueStep ==
    /\ pc = "GetRemValue"
    /\ ret' = GetRemValue(cuesheet.Rem, arg.typ)
    /\ pc' = "done"
    /\ UNCHANGED <<arg, input, rdpos, bufmem, b, cuesheet, frame_, out, fs>>

\* value, ok := c.GetRemByKey(key)
GetRemByKeyStep ==
    /\ pc = "GetRemByKey"
    /\ ret' = GetRemByKey(cuesheet.Rem, arg.key)
    /\ pc' = "done"
    /\ UNCHANGED <<arg, input, rdpos, bufmem, b, cuesheet, frame_, out, fs>>

NextRem == ParseRemCommentStep \/ GetRemValueStep \/ GetRemByKeyStep

SpecRem == InitRem /\ [][NextRem]_vars

----------------------------------------------------------------------------
(* C12 *)

\* the fixed table of the comment types
RemTable ==
    { <<<<"D", "A", "T", "E">>, 1>>, <<<<"G", "E", "N", "R", "E">>, 2>>, <<<<"D", "I", "S", "C", "N", "U", "M", "B", "E", "R">>, 3>>, <<<<"C", "O", "M", "M", "E", "N", "T">>, 4>>,
      <<<<"R", "E", "P", "L", "A", "Y", "G", "A", "I", "N", "_", "A", "L", "B", "U", "M", "_", "G", "A", "I", "N">>, 5>>, <<<<"R", "E", "P", "L", "A", "Y", "G", "A", "I", "N", "_", "A", "L", "B", "U", "M", "_", "P", "E", "A", "K">>, 6>>,
      <<<<"R", "E", "P", "L", "A", "Y", "G", "A", "I", "N", "_", "T", "R", "A", "C", "K", "_", "G", "A", "I", "N">>, 7>>, <<<<"R", "E", "P", "L", "A", "Y", "G", "A", "I", "N", "_", "T", "R", "A", "C", "K", "_", "P", "E", "A", "K">>, 8>> }
TableType(key) ==
    IF \E e \in RemTable : e[1] = key THEN (CHOOSE e \in RemTable : e[1] = key)[2] ELSE 0

ParsedComment == pc = "done" /\ arg.op = "ParseRemComment"

\* C12, as claimed: for every non-empty comment line ParseRemComment succeeds
\* and returns the text before the first space in upper case as key and the type
\* the fixed table gives that key, unknown for every other key; no comment line
\* makes it fail.
C12_ClassificationTotal ==
    (ParsedComment /\ arg.rems[1] # <<>>) =>
        /\ ~ret.panic
        /\ ret.ok
        /\ ret.field[1].Key = ToUpper(FirstWord(arg.rems[1]))
        /\ ret.field[1].Type = TableType(ret.field[1].Key)

----------------------------------------------------------------------------
(* C13 *)

\* the positions of the comments whose classified type, or key, is the one asked for
TypeMatches(rems, typ) ==
    {i \in 1..Len(rems) :
        ParseRemComment(rems[i]).ok /\ ParseRemComment(rems[i]).field[1].Type = typ}
KeyMatches(rems, key) ==
    {i \in 1..Len(rems) :
        ParseRemComment(rems[i]).ok /\ ParseRemComment(rems[i]).field[1].Key = ToUpper(key)}
FirstIn(set) == CHOOSE i \in set : \A j \in set : i <= j

\* the answer that returns the first match of the set, not-found for the empty set
FirstMatchAnswered(rems, set) ==
    /\ ~ret.panic
    /\ ret.ok = (set # {})
    /\ ret.ok => ret.value = ParseRemComment(rems[FirstIn(set)]).field[1].Value

AccessorCalled == pc = "done" /\ arg.op \in {"GetRemValue", "GetRemByKey"}

\* C13, as claimed: for any comment list GetRemValue(type) and GetRemByKey(key)
\* return the value of the first comment in list order whose classified type,
\* respectively upper-cased key, matches, report not-found exactly when no
\* comment matches, and leave the comment list unchanged.
C13_FirstMatch ==
    AccessorCalled =>
        /\ cuesheet.Rem = arg.rems
        /\ arg.op = "GetRemValue" =>
              FirstMatchAnswered(arg.rems, TypeMatches(arg.rems, arg.typ))
        /\ arg.op = "GetRemByKey" =>
              FirstMatchAnswered(arg.rems, KeyMatches(arg.rems, arg.key))

----------------------------------------------------------------------------
(* ReadFile on two inputs in turn, by a caller that compares the results:  *)
(* the same lines ended by LF and by CR LF, short and longer than the      *)
(* buffer of the reader, and an input with and without one line.           *)

MaxPairLines == 3
MaxPad == 130

ScopePool ==
    << <<"F", "I", "L", "E", SP, DQ, "a", ".", "w", "a", "v", DQ, SP, "W", "A", "V", "E">>, <<SP, SP, "T", "R", "A", "C", "K", SP, "0", "1", SP, "A", "U", "D", "I", "O">>, <<SP, SP, SP, SP, "I", "N", "D", "E", "X", SP, "0", "1", SP, "0", "0", ":", "0", "0", ":", "0", "0">>, <<"T", "I", "T", "L", "E", SP, "t">>,
       <<"R", "E", "M", SP, "c">>, <<"C", "A", "T", "A", "L", "O", "G", SP, "1">>, <<SP, SP, SP, SP, "I", "S", "R", "C", SP, "x">>, <<SP, SP, SP, SP, "B", "O", "G", "U", "S", SP, "x">>, <<"P", "R", "E", "G", "A", "P", SP, "x">> >>

\* the lines of the pool among which an unrecognized line is put
StructurePool == 1..4
UnknownLine == <<"B", "O", "G", "U", "S", SP, "x">>

RECURSIVE JoinEnded(_, _)
JoinEnded(lines, end) ==
    IF lines = <<>> THEN <<>> ELSE Head(lines) \o end \o JoinEnded(Tail(lines), end)

PoolLines(ids) == [i \in DOMAIN ids |-> ScopePool[ids[i]]]

\* a comment of pad characters, then a file of two tracks and a title
LongLines(pad) ==
    <<Keyword.REM \o <<SP>> \o [i \in 1..pad |-> "c"]>> \o PoolLines(<<1, 2, 3, 2, 3, 4>>)

InsertAt(lines, k, line) == SubSeq(lines, 1, k) \o <<line>> \o SubSeq(lines, k + 1, Len(lines))

PairStart(kind, lines, first, second) ==
    ParseStart(first, [kind |-> kind, lines |-> lines, phase |-> 1,
                       second |-> second, first |-> NoRet])

InitPair ==
    \/ \E n \in 0..MaxPairLines : \E ids \in [1..n -> 1..Len(ScopePool)] :
          PairStart("crlf", PoolLines(ids),
                    JoinEnded(PoolLines(ids), <<LF>>), JoinEnded(PoolLines(ids), <<CR, LF>>))
    \/ \E pad \in 0..MaxPad :
          PairStart("crlf", LongLines(pad),
                    JoinEnded(LongLines(pad), <<LF>>), JoinEnded(LongLines(pad), <<CR, LF>>))
    \/ \E n \in 0..MaxPairLines : \E ids \in [1..n -> StructurePool] : \E k \in 0..n :
          PairStart("removed", InsertAt(PoolLines(ids), k, UnknownLine),
                    JoinEnded(InsertAt(PoolLines(ids), k, UnknownLine), <<LF>>),
                    JoinEnded(PoolLines(ids), <<LF>>))

\* the caller keeps what ReadFile returned and calls it on the second input
ParseSecond ==
    /\ pc = "done"
    /\ arg.phase = 1
    /\ arg' = [arg EXCEPT !.phase = 2, !.first = ret]
    /\ input' = arg.second
    /\ pc' = "ReadFile"
    /\ ret' = NoRet
    /\ rdpos' = 0
    /\ bufmem' = NewBuf
    /\ b' = NewReader
    /\ cuesheet' = ZeroCuesheet
    /\ frame_' = NoScope
    /\ UNCHANGED <<out, fs>>

NextPair == ReadFileStep \/ readTracksStep \/ readTrackStep \/ ParseSecond

SpecPair == InitPair /\ [][NextPair]_vars

\* both inputs of the pair have been parsed
BothParsed(kind) == pc = "done" /\ arg.kind = kind /\ arg.phase = 2

----------------------------------------------------------------------------
(* C15 *)

\* C15, as claimed: parsing an input whose lines end in CR LF yields the same
\* sheet and the same error outcome as parsing the same lines ended by LF.
C15_CrLfSameAsLf == BothParsed("crlf") => ret = arg.first

----------------------------------------------------------------------------
(* C18 *)

\* the bytes the reader has yet to deliver: the unread part of its buffer, then
\* what the io.Reader still holds
Unread == SubSeq(bufmem, b.r + 1, b.w) \o From(input, rdpos)

InScope == pc \in {"readTrack", "readTracks"}
ScopeIndent == IF pc = "readTrack" THEN Indent4 ELSE Indent2

\* the line about to be read does not belong to the scope because of its indentation
LookAheadOutOfScope ==
    InScope /\ bReadString.err = "nil" /\ ~HasPrefix(bReadString.line, ScopeIndent)

\* C18, as claimed: when readTrack or readTracks reads a line that its indentation
\* puts outside its scope, the read position is rewound by exactly that line, so
\* that the bytes still to be read are the same as before the read, for inputs of
\* any length, longer than the buffer of the reader included.
C18_PushBackExact == [][LookAheadOutOfScope => Unread' = Unread]_vars

----------------------------------------------------------------------------
(* C19 *)

\* the line about to be read by readTrack is at track-detail depth and carries a
\* command readTrack does not know
UnknownTrackCommand ==
    /\ pc = "readTrack"
    /\ bReadString.err = "nil"
    /\ HasPrefix(bReadString.line, Indent4)
    /\ readTrackLine(frame_.track, bReadString.line).kind = "break"

\* C19, as claimed: an unrecognized command on a line at track-detail depth ends
\* the current track and is pushed back: readTrack does not consume the line, and
\* readTracks is the next to read that same line.
C19_UnknownCommandPushedBack ==
    [][UnknownTrackCommand =>
          /\ pc' = "readTracks"
          /\ Unread' = Unread]_vars

----------------------------------------------------------------------------
(* C20 *)

\* C20, as claimed: an unrecognized command on a line without leading spaces is
\* ignored: the parse of the input gives no error and the sheet that the parse of
\* the input without that line gives, wherever in the input the line stands.
C20_UnknownLineIgnored ==
    BothParsed("removed") => (arg.first.err = "nil" /\ arg.first = ret)

----------------------------------------------------------------------------
(* tools/normalize-cue: normalizeCueLines and what it calls.  A file is a  *)
(* sequence of lines; fixMojibake is false.                                *)

\* strings.ToLower on the characters the model uses
ToLower(s) ==
    LET lower ==
          [A |-> "a", B |-> "b", C |-> "c", D |-> "d", E |-> "e", F |-> "f", G |-> "g",
           H |-> "h", I |-> "i", J |-> "j", K |-> "k", L |-> "l", M |-> "m", N |-> "n",
           O |-> "o", P |-> "p", Q |-> "q", R |-> "r", S |-> "s", T |-> "t", U |-> "u",
           V |-> "v", W |-> "w", X |-> "x", Y |-> "y", Z |-> "z"]
    IN  [i \in DOMAIN s |-> IF s[i] \in DOMAIN lower THEN lower[s[i]] ELSE s[i]]

\* the offset of the last c in s, 0 if there is none
LastIndexOf(s, c) ==
    IF \E i \in 1..Len(s) : s[i] = c
    THEN CHOOSE k \in 1..Len(s) : s[k] = c /\ \A j \in (k + 1)..Len(s) : s[j] # c
    ELSE 0

\* filepath.Base(strings.ReplaceAll(filePath, "\\", "/")) of a path that does not
\* end in a separator
Base(filePath) ==
    LET path == [i \in DOMAIN filePath |-> IF filePath[i] = BSL THEN "/" ELSE filePath[i]]
    IN  From(path, LastIndexOf(path, "/"))

\* strings.TrimSuffix(f, filepath.Ext(f)) of a file name
TrimExt(f) == IF LastIndexOf(f, ".") = 0 THEN f ELSE SubSeq(f, 1, LastIndexOf(f, ".") - 1)

\* audioMap[key] of normalizeCueLines: both keys of a file are set in the order of
\* audioFiles, so a later file replaces an earlier one; <<>> for a missing key
AudioMap(audioFiles, key) ==
    LET hits == {i \in 1..Len(audioFiles) :
                    ToLower(audioFiles[i]) = key \/ ToLower(TrimExt(audioFiles[i])) = key}
    IN  IF hits = {} THEN <<>>
        ELSE audioFiles[CHOOSE i \in hits : \A j \in hits : j <= i]

\* the keys of audioMap
AudioKeys(audioFiles) ==
    {ToLower(audioFiles[i]) : i \in 1..Len(audioFiles)}
    \cup {ToLower(TrimExt(audioFiles[i])) : i \in 1..Len(audioFiles)}

\* extractTrackNumber: ^(\d{1,3})[\s\-_\.]
extractTrackNumber(fileName) ==
    LET n == IF \E i \in 1..Len(fileName) : fileName[i] \notin Digits
             THEN (CHOOSE i \in 1..Len(fileName) :
                      fileName[i] \notin Digits /\ \A j \in 1..(i - 1) : fileName[j] \in Digits) - 1
             ELSE Len(fileName)
    IN  IF n >= 1 /\ n <= 3 /\ n < Len(fileName)
           /\ fileName[n + 1] \in {SP, TAB, "-", "_", "."}
        THEN SubSeq(fileName, 1, n)
        ELSE <<>>

\* findMatchingAudioFile: the files the loop over the keys of the map may return
\* for a track number (the order of a map range is not fixed)
TrackNumberMatches(trackNum, audioFiles) ==
    {AudioMap(audioFiles, key) : key \in
        {k \in AudioKeys(audioFiles) :
            \E sep \in {SP, "-", "_"} : HasPrefix(k, trackNum \o <<sep>>)}}

\* findMatchingAudioFile(fileName, audioMap); "" is <<>>
findMatchingAudioFile(fileName, audioFiles) ==
    IF ToLower(fileName) \in AudioKeys(audioFiles)
    THEN AudioMap(audioFiles, ToLower(fileName))
    ELSE IF ToLower(TrimExt(fileName)) \in AudioKeys(audioFiles)
    THEN AudioMap(audioFiles, ToLower(TrimExt(fileName)))
    ELSE IF extractTrackNumber(fileName) # <<>>
            /\ TrackNumberMatches(extractTrackNumber(fileName), audioFiles) # {}
    THEN CHOOSE f \in TrackNumberMatches(extractTrackNumber(fileName), audioFiles) : TRUE
    ELSE <<>>

\* fileLineRegex on a line of the shape FILE, one space, a path with or without
\* double quotes around it, one space, a file type: <<prefix, filePath, fileType>>,
\* and <<>> for a line that does not start with FILE
FileLineTypes == {<<"W", "A", "V", "E">>, <<"M", "P", "3">>, <<"A", "I", "F", "F">>, <<"B", "I", "N", "A", "R", "Y">>, <<"M", "O", "T", "O", "R", "O", "L", "A">>}
fileLineRegex(line) ==
    LET prefix == Keyword.FILE \o <<SP>>
        rest == From(line, Len(prefix))
        sp == LastIndexOf(rest, SP)
        quoted == SubSeq(rest, 1, sp - 1)
        path == IF Len(quoted) >= 2 /\ Head(quoted) = DQ /\ quoted[Len(quoted)] = DQ
                THEN SubSeq(quoted, 2, Len(quoted) - 1) ELSE quoted
    IN  IF HasPrefix(line, prefix) /\ sp > 1 /\ From(rest, sp) \in FileLineTypes
           /\ path # <<>> /\ DQ \notin {path[i] : i \in 1..Len(path)}
        THEN <<prefix, path, From(rest, sp)>>
        ELSE <<>>

\* normalizeCueLines: one iteration of its loop, [line, changes]
normalizeLine(line, audioFiles) ==
    LET matches == fileLineRegex(line)
        fileName == Base(matches[2])
        matchedFile == findMatchingAudioFile(fileName, audioFiles)
        changed == matchedFile # <<>> /\ matchedFile # fileName
    IN  IF matches = <<>> THEN [line |-> line, changes |-> 0]
        ELSE [line |-> matches[1] \o <<DQ>> \o (IF changed THEN matchedFile ELSE fileName)
                       \o <<DQ, SP>> \o matches[3],
              changes |-> IF changed THEN 1 ELSE 0]

\* normalizeCueLines(lines, audioFiles, verbose, false)
RECURSIVE normalizeCueLines(_, _)
normalizeCueLines(lines, audioFiles) ==
    IF lines = <<>> THEN [normalized |-> <<>>, changes |-> 0]
    ELSE LET one == normalizeLine(Head(lines), audioFiles)
             more == normalizeCueLines(Tail(lines), audioFiles)
         IN  [normalized |-> <<one.line>> \o more.normalized,
              changes |-> one.changes + more.changes]

----------------------------------------------------------------------------
(* tools/normalize-cue: processCueFile as a state machine over the files   *)
(* at cuePath (cue), cuePath + ".bak" (bak) and outputPath (outp).  Each   *)
(* call of the operating system is a step that succeeds or fails as        *)
(* arg.fail says.                                                          *)

\* a processCueFile that writes in dry-run mode too
processDecisionWrites(changes, dryRun, replaceOriginal) ==
    IF changes = 0 THEN "return 0"
    ELSE IF replaceOriginal THEN "Rename"
    ELSE "writeCueFile"

\* processCueFile: what follows normalizeCueLines
processDecision(changes, dryRun, replaceOriginal) ==
    IF changes = 0 THEN "return 0"
    ELSE IF dryRun THEN "return changes"
    ELSE IF replaceOriginal THEN "Rename"
    ELSE "writeCueFile"

\* an os.Rename that removes the old path and creates nothing
osRenameLoses(files, from, to) == [files EXCEPT ![from] = NoFile]

\* os.Rename(from, to), when it succeeds
osRename(files, from, to) == [files EXCEPT ![to] = files[from], ![from] = NoFile]

replaceOriginal == arg.outputPath = <<>>
\* the file writeCueFile(outputPath, normalized) writes
Target == IF replaceOriginal THEN "cue" ELSE "outp"

Return(changes) ==
    /\ pc' = "done"
    /\ ret' = [changes |-> changes]

\* scanAudioFiles, readCueFile, normalizeCueLines and the branches on their results
processCueFileStart(n, next) ==
    IF ~fs.cue.exists \/ next = "return 0" THEN Return(0) /\ UNCHANGED frame_
    ELSE IF next = "return changes" THEN Return(n.changes) /\ UNCHANGED frame_
    ELSE /\ pc' = next
         /\ frame_' = n
         /\ UNCHANGED ret

processCueFileStep ==
    /\ pc = "processCueFile"
    /\ processCueFileStart(
           normalizeCueLines(fs.cue.lines, arg.audioFiles),
           processDecision(normalizeCueLines(fs.cue.lines, arg.audioFiles).changes,
                           arg.dryRun, replaceOriginal))
    /\ UNCHANGED <<arg, input, rdpos, bufmem, b, cuesheet, out, fs>>

\* os.Rename(cuePath, backupPath)
RenameStep ==
    /\ pc = "Rename"
    /\ IF arg.fail.rename
       THEN Return(0) /\ UNCHANGED fs
       ELSE /\ fs' = osRename(fs, "cue", "bak")
            /\ pc' = "writeCueFile"
            /\ UNCHANGED ret
    /\ UNCHANGED <<arg, input, rdpos, bufmem, b, cuesheet, frame_, out>>

\* processCueFile: writeCueFile has returned an error
WriteFailed ==
    IF replaceOriginal THEN pc' = "Restore" /\ UNCHANGED ret ELSE Return(0)

\* writeCueFile: os.Create(path)
CreateStep ==
    /\ pc = "writeCueFile"
    /\ IF arg.fail.create
       THEN WriteFailed /\ UNCHANGED fs
       ELSE /\ fs' = [fs EXCEPT ![Target] = Stored(<<>>)]
            /\ pc' = "WriteString"
            /\ UNCHANGED ret
    /\ UNCHANGED <<arg, input, rdpos, bufmem, b, cuesheet, frame_, out>>

\* writeCueFile: the loop of writer.WriteString and writer.Flush, which leave all
\* the lines in the file, or on an error the arg.fail.write first of them
WriteStringStep ==
    /\ pc = "WriteString"
    /\ IF arg.fail.write < 0
       THEN /\ fs' = [fs EXCEPT ![Target] = Stored(frame_.normalized)]
            /\ Return(frame_.changes)
       ELSE /\ fs' = [fs EXCEPT ![Target] =
                         Stored(SubSeq(frame_.normalized, 1,
                                       Min(arg.fail.write, Len(frame_.normalized))))]
            /\ WriteFailed
    /\ UNCHANGED <<arg, input, rdpos, bufmem, b, cuesheet, frame_, out>>

\* os.Rename(backupPath, cuePath) // Best effort restore
RestoreStep ==
    /\ pc = "Restore"
    /\ fs' = IF arg.fail.restore THEN fs ELSE osRename(fs, "bak", "cue")
    /\ Return(0)
    /\ UNCHANGED <<arg, input, rdpos, bufmem, b, cuesheet, frame_, out>>

MaxCueLines == 2

CueLinePool ==
    << <<"F", "I", "L", "E", SP, DQ, "t", "e", "s", "t", ".", "w", "a", "v", DQ, SP, "W", "A", "V", "E">>, <<"F", "I", "L", "E", SP, "t", "e", "s", "t", ".", "f", "l", "a", "c", SP, "W", "A", "V", "E">>, <<"F", "I", "L", "E", SP, DQ, "0", "1", ".", "w", "a", "v", DQ, SP, "M", "P", "3">>, <<SP, SP, "T", "R", "A", "C", "K", SP, "0", "1", SP, "A", "U", "D", "I", "O">> >>

\* directories, as the sorted list scanAudioFiles returns
AudioDirs ==
    { <<>>, <<<<"t", "e", "s", "t", ".", "f", "l", "a", "c">>>>, <<<<"T", "e", "s", "t", ".", "w", "a", "v">>, <<"t", "e", "s", "t", ".", "f", "l", "a", "c">>>>, <<<<"0", "1", SP, "x", ".", "f", "l", "a", "c">>, <<"t", "e", "s", "t", ".", "m", "p", "3">>>> }

Failures ==
    [rename : BOOLEAN, create : BOOLEAN, write : {-1, 0, 1}, restore : BOOLEAN]

CueFiles ==
    {NoFile} \cup
    {Stored([i \in DOMAIN ids |-> CueLinePool[ids[i]]]) :
        ids \in UNION {[1..n -> 1..Len(CueLinePool)] : n \in 1..MaxCueLines}}

InitNormalize ==
    \E cue \in CueFiles, bak \in {NoFile, Stored(<<<<"o", "l", "d">>>>)}, dir \in AudioDirs,
       dryRun \in BOOLEAN, outputPath \in {<<>>, <<"o", ".", "c", "u", "e">>}, fail \in Failures :
        /\ pc = "processCueFile"
        /\ fs = [cue |-> cue, bak |-> bak, outp |-> NoFile]
        /\ arg = [outputPath |-> outputPath, dryRun |-> dryRun, audioFiles |-> dir,
                  fail |-> fail, fs |-> [cue |-> cue, bak |-> bak, outp |-> NoFile]]
        /\ ret = NoRet
        /\ input = <<>>
        /\ rdpos = 0
        /\ bufmem = NewBuf
        /\ b = NewReader
        /\ cuesheet = ZeroCuesheet
        /\ frame_ = NoScope
        /\ out = <<>>

NextNormalize ==
    processCueFileStep \/ RenameStep \/ CreateStep \/ WriteStringStep \/ RestoreStep

SpecNormalize == InitNormalize /\ [][NextNormalize]_vars

----------------------------------------------------------------------------
(* C16 *)

\* the FILE lines of the CUE file for which the directory holds the audio file
\* under another name
LinesToChange ==
    {i \in 1..Len(arg.fs.cue.lines) :
        /\ fileLineRegex(arg.fs.cue.lines[i]) # <<>>
        /\ findMatchingAudioFile(Base(fileLineRegex(arg.fs.cue.lines[i])[2]), arg.audioFiles)
              \notin {<<>>, Base(fileLineRegex(arg.fs.cue.lines[i])[2])}}

NeedsChanges == arg.fs.cue.exists /\ LinesToChange # {}

\* C16: in dry-run mode on a CUE file that needs changes processCueFile leaves
\* the CUE file with its original content, creates no .bak file and writes no
\* output file, at every step, and returns the non-zero number of changes that
\* would be made.
C16_DryRunLeavesFiles ==
    (arg.dryRun /\ NeedsChanges) =>
        /\ fs = arg.fs
        /\ pc = "done" => (ret.changes = Cardinality(LinesToChange) /\ ret.changes > 0)

\* a dry run on a CUE file with two lines to change has returned, no .bak present
C16_Witness ==
    /\ pc = "done"
    /\ arg.dryRun
    /\ ret.changes = 2
    /\ Cardinality(LinesToChange) = 2
    /\ ~fs.bak.exists
    /\ ~fs.outp.exists
    /\ fs.cue = arg.fs.cue

----------------------------------------------------------------------------
(* C17 *)

\* a replacement in place: no output path, not a dry run, at least one change
ReplacesInPlace == replaceOriginal /\ ~arg.dryRun /\ NeedsChanges

Original == arg.fs.cue
Normalized == Stored(normalizeCueLines(arg.fs.cue.lines, arg.audioFiles).normalized)

\* the rename to .bak succeeded and writeCueFile returned an error
WritingFailed == ~arg.fail.rename /\ (arg.fail.create \/ arg.fail.write >= 0)

\* the original is renamed to .bak before anything is written to the path; at every
\* step the original content is at the path or at the path with .bak; on success
\* .bak holds the original and the path the normalized content
BackupFirst ==
    /\ (fs.cue.exists /\ fs.cue # Original) => fs.bak = Original
    /\ fs.cue = Original \/ fs.bak = Original
    /\ (pc = "done" /\ ret.changes > 0) => (fs.bak = Original /\ fs.cue = Normalized)
    /\ (pc = "done" /\ ~arg.fail.rename /\ ~WritingFailed) => ret.changes > 0

\* C17, as claimed: backup before writing, the original content always at the path
\* or at .bak, on success .bak the original and the path the normalized content,
\* and if writing fails the backup is renamed back to the path.
C17_SafeReplacement ==
    ReplacesInPlace =>
        /\ BackupFirst
        /\ (pc = "done" /\ WritingFailed) => (fs.cue = Original /\ ~fs.bak.exists)

\* C17, amended: as claimed, except that after a failed write the rename of the
\* backup back to the path is only attempted: when it succeeds the path holds the
\* original content again and .bak is gone, when it fails too the original content
\* stays at .bak; in both cases processCueFile returns 0.
C17_SafeReplacementBestEffort ==
    ReplacesInPlace =>
        /\ BackupFirst
        /\ (pc = "done" /\ WritingFailed) =>
              /\ ret.changes = 0
              /\ IF arg.fail.restore
                 THEN fs.bak = Original /\ fs.cue # Original
                 ELSE fs.cue = Original /\ ~fs.bak.exists

\* a write that failed after one line has been undone by the rename back
C17_Witness ==
    /\ ReplacesInPlace
    /\ pc = "done"
    /\ WritingFailed
    /\ arg.fail.write = 1
    /\ ~arg.fail.create
    /\ ~arg.fail.restore
    /\ arg.fs.bak.exists
    /\ fs.cue = Original
    /\ ~fs.bak.exists

----------------------------------------------------------------------------
(* ReadFile on inputs that open a file and a track, or do not, and go on   *)
(* with lines of every depth: FLAGS lines, comments, quoted fields.        *)

MaxDetailLines == 3

\* what precedes the lines drawn from the pool: nothing, a file, a file and a track
HeadPool == << <<>>, <<ScopePool[1]>>, <<ScopePool[1], ScopePool[2]>> >>

DetailPool ==
    << <<SP, SP, SP, SP, "F", "L", "A", "G", "S", SP, "D", "C", "P">>,
       <<SP, SP, SP, SP, "F", "L", "A", "G", "S", SP, "P", "R", "E", SP, "4", "C", "H">>,
       <<SP, SP, SP, SP, "F", "L", "A", "G", "S", SP, "X", "Y", "Z", SP, "S", "C", "M", "S">>,
       <<SP, SP, SP, SP, "F", "L", "A", "G", "S">>,
       <<SP, SP, SP, SP, "F", "L", "A", "G", "S", SP, "D", "C", "P", SP, DQ, "x">>,
       <<SP, SP, SP, SP, "R", "E", "M", SP, "c">>,
       <<SP, SP, SP, SP, "T", "I", "T", "L", "E", SP, DQ, "a", BSL>>,
       <<SP, SP, SP, SP, "I", "N", "D", "E", "X", SP, "0", "0", SP, "0", "0", ":", "0", "0", ":", "0", "0">>,
       <<"R", "E", "M", SP, "s">>,
       <<SP, SP, "T", "I", "T", "L", "E", SP, "u">>,
       <<SP, SP, "T", "R", "A", "C", "K", SP, "0", "2", SP, "A", "U", "D", "I", "O">> >>

DetailLines(ids) == [i \in DOMAIN ids |-> DetailPool[ids[i]]]

InitDetail ==
    \E h \in DOMAIN HeadPool : \E n \in 0..MaxDetailLines :
        \E ids \in [1..n -> DOMAIN DetailPool] :
            ParseStart(JoinEnded(HeadPool[h] \o DetailLines(ids), <<LF>>),
                       [lines |-> HeadPool[h] \o DetailLines(ids)])

NextDetail == ReadFileStep \/ readTracksStep \/ readTrackStep

SpecDetail == InitDetail /\ [][NextDetail]_vars

\* the line readTrack is about to read is at track-detail depth and its command
\* is the given keyword
DetailCommand(keyword) ==
    /\ pc = "readTrack"
    /\ bReadString.err = "nil"
    /\ HasPrefix(bReadString.line, Indent4)
    /\ Split(Trim(bReadString.line, delims), SP)[1] = keyword

----------------------------------------------------------------------------
(* C21 *)

\* the tokens of a FLAGS line: what the spaces of the line separate, after the command
FlagTokens(line) == Tail(Split(Trim(line, delims), SP))

\* the flags a set of tokens names
NamedFlags(line) ==
    FlagsOf({Dcp : i \in {j \in DOMAIN FlagTokens(line) : FlagTokens(line)[j] = Keyword.DCP}}
            \cup {Four_ch : i \in {j \in DOMAIN FlagTokens(line) : FlagTokens(line)[j] = Keyword.FourCH}}
            \cup {Pre : i \in {j \in DOMAIN FlagTokens(line) : FlagTokens(line)[j] = Keyword.PRE}}
            \cup {Scms : i \in {j \in DOMAIN FlagTokens(line) : FlagTokens(line)[j] = Keyword.SCMS}})

\* C21, as claimed: a FLAGS line of a track sets the flags of the track to exactly
\* the recognized tokens (DCP, 4CH, PRE, SCMS) of that line, whatever the flags were
\* before, and its unrecognized tokens are skipped without error; any other line
\* that the track keeps reading leaves the flags as they are, so that a parsed
\* track has the flags of its last FLAGS line.
C21_FlagsOfLastLine ==
    [][/\ DetailCommand(Keyword.FLAGS) =>
              /\ pc' = "readTrack"
              /\ frame_'.track.Flags = NamedFlags(bReadString.line)
       /\ (pc = "readTrack" /\ pc' = "readTrack" /\ ~DetailCommand(Keyword.FLAGS)) =>
              frame_'.track.Flags = frame_.track.Flags]_vars

----------------------------------------------------------------------------
(* C22 *)

\* the payloads of the REM lines of the input that stand at sheet level, that is
\* without leading spaces, in input order
RECURSIVE SheetLevelRems(_)
SheetLevelRems(lines) ==
    IF lines = <<>> THEN <<>>
    ELSE (IF HasPrefix(Head(lines), Keyword.REM \o <<SP>>)
          THEN <<From(Head(lines), Len(Keyword.REM) + 1)>> ELSE <<>>)
         \o SheetLevelRems(Tail(lines))

\* ReadFile has returned a sheet
Parsed == pc = "done" /\ ret.sheet # <<>>

\* C22, as claimed: a REM line at track-detail depth (four leading spaces) does not
\* end the track and is retained nowhere: it changes neither the track nor the
\* sheet, and the comment list of the parsed sheet holds exactly the payloads of
\* the sheet-level REM lines of the input, in input order.
C22_TrackRemDiscarded ==
    /\ [][DetailCommand(Keyword.REM) =>
              (pc' = "readTrack" /\ frame_' = frame_ /\ cuesheet' = cuesheet)]_vars
    /\ [](Parsed => ret.sheet[1].Rem = SheetLevelRems(arg.lines))

----------------------------------------------------------------------------
(* ReadString on the remainder of a line: any text over a small alphabet   *)

MaxCursor == 5

CursorAlphabet == {"a", SP, DQ, SQ, BSL}

InitCursor ==
    \E n \in 0..MaxCursor :
        \E s \in [1..n -> CursorAlphabet] :
            /\ pc = "ReadString"
            /\ arg = [s |-> s]
            /\ ret = NoRet
            /\ input = s
            /\ rdpos = 0
            /\ bufmem = NewBuf
            /\ b = NewReader
            /\ cuesheet = ZeroCuesheet
            /\ frame_ = NoScope
            /\ out = <<>>
            /\ fs = NoFiles

SpecCursor == InitCursor /\ [][ReadStringStep]_vars

----------------------------------------------------------------------------
(* C23 *)

\* the number of backslashes that stand immediately before position k of t
RECURSIVE BackslashesBefore(_, _)
BackslashesBefore(t, k) ==
    IF k > 2 /\ t[k - 1] = BSL THEN 1 + BackslashesBefore(t, k - 1) ELSE 0

\* position k of the quoted text t holds the quote that opens t, not escaped
ClosesAt(t, k) == t[k] = t[1] /\ BackslashesBefore(t, k) % 2 = 0

\* the positions after the first at which the field could end, the first of them
\* being the closing quote
ClosingQuotes(t) == {k \in 2..Len(t) : ClosesAt(t, k)}
ClosingQuote(t) == CHOOSE k \in ClosingQuotes(t) : \A j \in ClosingQuotes(t) : k <= j

\* the cursor once one separator, if there is one, is skipped
SkipSeparator(s) == IF s # <<>> /\ Head(s) = SP THEN Tail(s) ELSE s

\* the cursor ReadString was called on, leading delimiters skipped, starts with a
\* quote that is closed further on
QuotedField(t) == isQuoted(t) /\ ClosingQuotes(t) # {}

\* C23, as claimed: on a cursor that, leading delimiters skipped, starts with a
\* quote, ReadString returns the text between that quote and the next matching
\* quote that no backslash escapes, and leaves the cursor just past the closing
\* quote and one following separator.
C23_QuotedFieldAndSeparator ==
    (pc = "done" /\ QuotedField(TrimLeft(arg.s, delims))) =>
        /\ ~ret.panic
        /\ ret.v = SubSeq(TrimLeft(arg.s, delims), 2,
                          ClosingQuote(TrimLeft(arg.s, delims)) - 1)
        /\ ret.s = SkipSeparator(From(TrimLeft(arg.s, delims),
                                      ClosingQuote(TrimLeft(arg.s, delims))))

----------------------------------------------------------------------------
(* float64 arithmetic, as ToDuration, Duration.Seconds and DurationToFrame *)
(* use it.  A natural number is the sequence of its digits in base         *)
(* LimbBase, lowest first, without leading zero digits; a float64 is       *)
(* [m, e] standing for m * 2^e with an odd mantissa m of at most 53 bits,  *)
(* or no digit for zero.  All values here are positive and far from the    *)
(* ends of the exponent range.                                             *)

RECURSIVE BitLen(_)
BitLen(n) == IF n = 0 THEN 0 ELSE 1 + BitLen(n \div 2)

\* the base holds a product of a digit and a 21-bit factor within 32 bits
LimbBase == 2 ^ 10
LimbBits == BitLen(LimbBase) - 1
\* the bits of a float64 mantissa
MantissaBits == 53

RECURSIVE Limbs(_)
Limbs(n) == IF n = 0 THEN <<>> ELSE <<n % LimbBase>> \o Limbs(n \div LimbBase)

RECURSIVE LimbsVal(_)
LimbsVal(a) == IF a = <<>> THEN 0 ELSE Head(a) + LimbBase * LimbsVal(Tail(a))

RECURSIVE LimbsNorm(_)
LimbsNorm(a) ==
    IF a # <<>> /\ a[Len(a)] = 0 THEN LimbsNorm(SubSeq(a, 1, Len(a) - 1)) ELSE a

Limb(a) == IF a = <<>> THEN 0 ELSE Head(a)
Rest(a) == IF a = <<>> THEN <<>> ELSE Tail(a)

RECURSIVE LimbsAdd(_, _, _)
LimbsAdd(a, b_, carry) ==
    IF a = <<>> /\ b_ = <<>> THEN Limbs(carry)
    ELSE <<(Limb(a) + Limb(b_) + carry) % LimbBase>>
         \o LimbsAdd(Rest(a), Rest(b_), (Limb(a) + Limb(b_) + carry) \div LimbBase)

\* a - b_ for a >= b_
RECURSIVE LimbsSubBorrow(_, _, _)
LimbsSubBorrow(a, b_, borrow) ==
    IF a = <<>> THEN <<>>
    ELSE <<(Limb(a) - Limb(b_) - borrow + LimbBase) % LimbBase>>
         \o LimbsSubBorrow(Rest(a), Rest(b_),
                           IF Limb(a) - Limb(b_) - borrow < 0 THEN 1 ELSE 0)

LimbsSub(a, b_) == LimbsNorm(LimbsSubBorrow(a, b_, 0))

LimbsLess(a, b_) ==
    IF Len(a) # Len(b_) THEN Len(a) < Len(b_)
    ELSE \E i \in 1..Len(a) : a[i] < b_[i] /\ \A j \in (i + 1)..Len(a) : a[j] = b_[j]

\* a * k + carry for a small k
RECURSIVE LimbsMulSmall(_, _, _)
LimbsMulSmall(a, k, carry) ==
    IF a = <<>> THEN Limbs(carry)
    ELSE <<(Head(a) * k + carry) % LimbBase>>
         \o LimbsMulSmall(Tail(a), k, (Head(a) * k + carry) \div LimbBase)

RECURSIVE LimbsMul(_, _)
LimbsMul(a, b_) ==
    IF a = <<>> \/ b_ = <<>> THEN <<>>
    ELSE LimbsAdd(LimbsMulSmall(a, Head(b_), 0), <<0>> \o LimbsMul(a, Tail(b_)), 0)

\* a / k for a small k, from the highest digit i down: quotient q, remainder r
RECURSIVE LimbsDivFrom(_, _, _, _, _)
LimbsDivFrom(a, i, k, q, r) ==
    IF i = 0 THEN [q |-> LimbsNorm(q), r |-> r]
    ELSE LimbsDivFrom(a, i - 1, k, <<(r * LimbBase + a[i]) \div k>> \o q,
                      (r * LimbBase + a[i]) % k)

LimbsDivSmall(a, k) == LimbsDivFrom(a, Len(a), k, <<>>, 0)

LimbsShl(a, s) ==
    IF a = <<>> THEN <<>>
    ELSE [i \in 1..(s \div LimbBits) |-> 0] \o LimbsMulSmall(a, 2 ^ (s % LimbBits), 0)

LimbsShr(a, s) ==
    LimbsDivSmall(SubSeq(a, s \div LimbBits + 1, Len(a)), 2 ^ (s % LimbBits)).q

LimbsBitLen(a) == IF a = <<>> THEN 0 ELSE LimbBits * (Len(a) - 1) + BitLen(a[Len(a)])

\* m * 2^e with the factors 2 of m moved into the exponent
RECURSIVE Float64Odd(_, _)
Float64Odd(m, e) ==
    IF m = <<>> THEN [m |-> <<>>, e |-> 0]
    ELSE IF Head(m) = 0 THEN Float64Odd(Tail(m), e + LimbBits)
    ELSE IF Head(m) % 2 = 0 THEN Float64Odd(LimbsShr(m, 1), e + 1)
    ELSE [m |-> m, e |-> e]

\* num * 2^s / den for a small den: the dividend, the divisor and the quotient
ScaledNum(num, s) == IF s >= 0 THEN LimbsShl(num, s) ELSE num
ScaledDen(den, s) == IF s >= 0 THEN Limbs(den) ELSE LimbsShl(Limbs(den), 0 - s)
ScaledDiv(num, den, s) ==
    LimbsDivSmall(IF s >= 0 THEN LimbsShl(num, s) ELSE LimbsShr(num, 0 - s), den).q

\* round to nearest, ties to even: up when the remainder is more than half of the
\* divisor, or half of it with an odd quotient
RoundsUp(q, rem, d) ==
    \/ LimbsLess(d, LimbsShl(rem, 1))
    \/ (LimbsShl(rem, 1) = d /\ Limb(q) % 2 = 1)

Float64Rounded(q, rem, d, e) ==
    IF RoundsUp(q, rem, d) THEN Float64Odd(LimbsAdd(q, <<1>>, 0), e)
    ELSE Float64Odd(q, e)

Float64Quotient(num, den, e, s, q) ==
    Float64Rounded(q, LimbsSub(ScaledNum(num, s), LimbsMul(q, ScaledDen(den, s))),
                   ScaledDen(den, s), e - s)

\* the quotient has MantissaBits bits for the scale s, or else for s - 1
Float64Scaled(num, den, e, s, q) ==
    IF LimbsBitLen(q) > MantissaBits
    THEN Float64Quotient(num, den, e, s - 1, ScaledDiv(num, den, s - 1))
    ELSE Float64Quotient(num, den, e, s, q)

Float64Scale(num, den, e, s) == Float64Scaled(num, den, e, s, ScaledDiv(num, den, s))

\* the float64 nearest to num / den * 2^e, for a small den
Float64Round(num, den, e) ==
    IF num = <<>> THEN [m |-> <<>>, e |-> 0]
    ELSE Float64Scale(num, den, e, MantissaBits + BitLen(den) - LimbsBitLen(num))

\* float64(n); x / y for a y whose odd mantissa is small (75 and 1e9 in the
\* source); x * y; x + y; and the conversion of a float64 to an integer
Float64(n) == Float64Round(Limbs(n), 1, 0)
Float64Div(x, y) == Float64Round(x.m, LimbsVal(y.m), x.e - y.e)
Float64Mul(x, y) == Float64Round(LimbsMul(x.m, y.m), 1, x.e + y.e)
Float64Add(x, y) ==
    IF x.m = <<>> THEN y
    ELSE IF y.m = <<>> THEN x
    ELSE Float64Round(LimbsAdd(LimbsShl(x.m, x.e - Min(x.e, y.e)),
                               LimbsShl(y.m, y.e - Min(x.e, y.e)), 0),
                      1, Min(x.e, y.e))
Float64Trunc(x) ==
    LimbsVal(IF x.e >= 0 THEN LimbsShl(x.m, x.e) ELSE LimbsShr(x.m, 0 - x.e))

\* time.Second, in nanoseconds
Second == 1000000000

\* func (f Frame) ToDuration() time.Duration
ToDuration(f) ==
    Float64Trunc(Float64Mul(Float64Div(Float64(f), Float64(framesPerSecond)),
                            Float64(Second)))

\* func (d Duration) Seconds() float64 of package time
Seconds(d) ==
    Float64Add(Float64(d \div Second), Float64Div(Float64(d % Second), Float64(Second)))

\* func DurationToFrame(d time.Duration) Frame
DurationToFrame(d) == Float64Trunc(Float64Mul(Seconds(d), Float64(framesPerSecond)))

----------------------------------------------------------------------------
(* Frame.ToDuration followed by DurationToFrame, and Track.PregapDuration  *)

MaxFrameValue == 160
MaxIndexes == 2

\* func (t *Track) GetIndex(number uint): the first index with that number
GetIndex(t, number) ==
    IF \E i \in DOMAIN t.Index : t.Index[i].Number = number
    THEN [idx |-> t.Index[CHOOSE i \in DOMAIN t.Index :
                              /\ t.Index[i].Number = number
                              /\ \A j \in 1..(i - 1) : t.Index[j].Number # number],
          err |-> "nil"]
    ELSE [idx |-> TrackIndex(0, 0), err |-> "index not found"]

\* func (t *Track) PregapDuration() time.Duration
PregapDuration(t) ==
    IF GetIndex(t, 1).err # "nil" THEN 0
    ELSE IF GetIndex(t, 0).err = "nil" /\ GetIndex(t, 1).idx.Frame > GetIndex(t, 0).idx.Frame
    THEN ToDuration(GetIndex(t, 1).idx.Frame - GetIndex(t, 0).idx.Frame)
    ELSE ToDuration(t.Pregap)

\* index entries numbered 0, 1 and 2 at the start, after one and after two seconds
IndexPool == {TrackIndex(n, fr) : n \in 0..2, fr \in {0, framesPerSecond, 2 * framesPerSecond}}

DurationStart(op, f, track) ==
    /\ pc = op
    /\ arg = [op |-> op, f |-> f, track |-> track]
    /\ ret = NoRet
    /\ input = <<>>
    /\ rdpos = 0
    /\ bufmem = NewBuf
    /\ b = NewReader
    /\ cuesheet = ZeroCuesheet
    /\ frame_ = NoScope
    /\ out = <<>>
    /\ fs = NoFiles

InitDuration ==
    \/ \E f \in 0..MaxFrameValue : DurationStart("ToDuration", f, ZeroTrack)
    \/ \E n \in 0..MaxIndexes : \E indexes \in [1..n -> IndexPool] :
          \E pregap \in {0, 2 * framesPerSecond} :
              DurationStart("PregapDuration", 0,
                            [ZeroTrack EXCEPT !.Index = indexes, !.Pregap = pregap])

\* duration := frame.ToDuration()
ToDurationStep ==
    /\ pc = "ToDuration"
    /\ ret' = [d |-> ToDuration(arg.f)]
    /\ pc' = "DurationToFrame"
    /\ UNCHANGED <<arg, input, rdpos, bufmem, b, cuesheet, frame_, out, fs>>

\* backToFrame := DurationToFrame(duration)
DurationToFrameStep ==
    /\ pc = "DurationToFrame"
    /\ ret' = [d |-> ret.d, f |-> DurationToFrame(ret.d)]
    /\ pc' = "done"
    /\ UNCHANGED <<arg, input, rdpos, bufmem, b, cuesheet, frame_, out, fs>>

\* duration := track.PregapDuration()
PregapDurationStep ==
    /\ pc = "PregapDuration"
    /\ ret' = [d |-> PregapDuration(arg.track)]
    /\ pc' = "done"
    /\ UNCHANGED <<arg, input, rdpos, bufmem, b, cuesheet, frame_, out, fs>>

NextDuration == ToDurationStep \/ DurationToFrameStep \/ PregapDurationStep

SpecDuration == InitDuration /\ [][NextDuration]_vars

----------------------------------------------------------------------------
(* C24 *)

HasIndex(t, number) == \E i \in DOMAIN t.Index : t.Index[i].Number = number
FrameOfIndex(t, number) == GetIndex(t, number).idx.Frame

PregapAnswered == pc = "done" /\ arg.op = "PregapDuration"

\* C24, as claimed: for a track with an index numbered 0, PregapDuration is the
\* duration of the frame difference between index 1 and index 0 (where the track
\* has an index 1 that is not before index 0, so that the difference exists); for
\* a track without index 0 it is the duration of the PREGAP field of the track.
C24_PregapDuration ==
    PregapAnswered =>
        /\ (HasIndex(arg.track, 0) /\ HasIndex(arg.track, 1)
              /\ FrameOfIndex(arg.track, 1) >= FrameOfIndex(arg.track, 0)) =>
                 ret.d = ToDuration(FrameOfIndex(arg.track, 1) - FrameOfIndex(arg.track, 0))
        /\ ~HasIndex(arg.track, 0) => ret.d = ToDuration(arg.track.Pregap)

----------------------------------------------------------------------------
(* C25 *)

\* C25, as claimed: for every frame f, DurationToFrame(f.ToDuration()) is f.
C25_FrameDurationIdentity ==
    (pc = "done" /\ arg.op = "ToDuration") => ret.f = arg.f

----------------------------------------------------------------------------
(* C26 *)

\* the track has its index 0 at a frame before the frame of its index 1
PregapPrecedesStart(t) ==
    (HasIndex(t, 0) /\ HasIndex(t, 1)) => FrameOfIndex(t, 0) < FrameOfIndex(t, 1)

\* C26, as claimed: in every sheet for which Validate returns no violation, each
\* track that has an index numbered 0 has it at a frame position before the
\* position of its index numbered 1.
C26_PregapBeforeStart ==
    (pc = "done" /\ ret = <<>>) =>
        \A i \in DOMAIN arg.sheet.File : \A j \in DOMAIN arg.sheet.File[i].Tracks :
            PregapPrecedesStart(arg.sheet.File[i].Tracks[j])

----------------------------------------------------------------------------
(* C27 *)

\* C27, as claimed: whatever the input, ReadFile returns, and returns either a
\* sheet with a nil error or no sheet with a non-nil error; it never fails in
\* another way, such as a slice expression out of range.
C27_ReadFileTotal ==
    pc = "done" =>
        /\ ~ret.panic
        /\ (ret.sheet # <<>>) = (ret.err = "nil")

----------------------------------------------------------------------------
(* ReadFile run to its end: every step of its loops is eventually taken.   *)
(* The inputs are those of SpecDetail and the long ones of SpecPair, which *)
(* make the reader refill its buffer while a line is looked ahead.         *)

InitTerminate ==
    \/ InitDetail
    \/ \E pad \in 0..MaxPad :
          ParseStart(JoinEnded(LongLines(pad), <<LF>>), [lines |-> LongLines(pad)])

SpecTerminate == InitTerminate /\ [][NextDetail]_vars /\ WF_vars(NextDetail)

----------------------------------------------------------------------------
(* C28 *)

\* the level that reads next when readTrack, resp. readTracks, returns
OuterLevel == IF pc = "readTrack" THEN "readTracks" ELSE "ReadFile"

\* a loop is about to read a line, and not the end of the input
ReadsLine == pc \in {"ReadFile", "readTracks", "readTrack"} /\ bReadString.err = "nil"

\* the FLAGS token loop on the cursor line: every call of ReadString on a cursor
\* that is not empty leaves a shorter cursor, or ends the loop by a panic
RECURSIVE TokenLoopAdvances(_)
TokenLoopAdvances(line) ==
    \/ Len(line) = 0
    \/ ReadString(line).panic
    \/ /\ Len(ReadString(line).s) < Len(line)
       /\ TokenLoopAdvances(ReadString(line).s)

\* C28: ReadFile terminates on every input.  A line that readTrack or readTracks
\* pushes back is read next by the level above, so that it is pushed back at most
\* once by each of the two and then consumed by ReadFile, which never pushes back;
\* every other read consumes its line; no step makes the input still to be read
\* longer; and the FLAGS token loop shortens the cursor on each iteration.
C28_ReadFileTerminates ==
    /\ <>(pc = "done")
    /\ [][/\ LookAheadOutOfScope => (pc' = OuterLevel /\ Len(Unread') <= Len(Unread))
          /\ (ReadsLine /\ ~LookAheadOutOfScope) => Len(Unread') < Len(Unread)]_vars
    /\ [](DetailCommand(Keyword.FLAGS) =>
              TokenLoopAdvances(From(Trim(bReadString.line, delims), Len(Keyword.FLAGS))))

\* a line has been pushed back by readTrack and by readTracks and is now to be
\* read by ReadFile, after a track that a FLAGS line with two tokens gave its flags
C28_Witness ==
    /\ pc = "ReadFile"
    /\ Len(cuesheet.File) = 1
    /\ Len(cuesheet.File[1].Tracks) = 1
    /\ cuesheet.File[1].Tracks[1].Flags = Pre + Four_ch
    /\ HasPrefix(Unread, Keyword.REM)

----------------------------------------------------------------------------
(* ReadFile on an input whose last line has no line terminator, and on the *)
(* same input with the terminator added                                    *)

\* the text without its final line terminator
Unterminated(text) == SubSeq(text, 1, Len(text) - 1)

InitFinal ==
    \E n \in 1..MaxPairLines : \E ids \in [1..n -> 1..Len(ScopePool)] :
        PairStart("eof", PoolLines(ids),
                  Unterminated(JoinEnded(PoolLines(ids), <<LF>>)),
                  JoinEnded(PoolLines(ids), <<LF>>))

SpecFinal == InitFinal /\ [][NextPair]_vars

----------------------------------------------------------------------------
(* C29 *)

\* C29, as claimed: an input whose last line lacks the line terminator parses to
\* the same sheet, with the same error outcome, as the same input with the
\* terminator added, whether that last line is at sheet, track-list or
\* track-detail level.
C29_FinalNewlineIrrelevant == BothParsed("eof") => ret = arg.first

----------------------------------------------------------------------------
(* C30 *)

\* the sheet-level fields of a sheet: all but its list of files
SheetLevel(cs) == [cs EXCEPT !.File = <<>>]

\* C30, as claimed: reading a line that begins with two or more spaces never sets
\* or changes a sheet-level field (title, performer, catalog, comment list, pregap,
\* postgap and the others), at whichever level the line is read.
C30_IndentedLineLeavesSheet ==
    [][(ReadsLine /\ HasPrefix(bReadString.line, Indent2))
           => SheetLevel(cuesheet') = SheetLevel(cuesheet)]_vars

====
